---- MODULE Spec2Model ----
(***************************************************************************)
(* Self-healing monitoring pipeline of webtem-vite-react-ssr-tailwind:     *)
(*   ErrorMonitorClass  (src/src/monitoring/ErrorMonitor.ts 24-253)        *)
(*   FixRegistryClass   (src/src/monitoring/ConsoleInterceptor.ts 362-677) *)
(*   ErrorBoundary      (src/src/monitoring/ErrorMonitor.ts 470-685)       *)
(*   ConsoleInterceptorClass                                               *)
(*                      (src/src/monitoring/ConsoleInterceptor.ts 21-339)  *)
(*   MonitoringSystem   (src/src/monitoring/ErrorMonitor.ts 275-449)       *)
(*                                                                         *)
(* The clock counts hours.  Strings that the code only compares or         *)
(* searches are sequences of words; an ISO timestamp is a fixed-width      *)
(* sequence of decimal digits (hours, then minutes), compared the way      *)
(* JavaScript compares strings.  successRate is an exact fraction          *)
(* (rateNum / rateDen).  A synchronous chain of calls (console method,     *)
(* interceptor, reportError, listeners) is one step; its depth is bounded  *)
(* by MaxStack, where the engine raises RangeError.  Patterns carry no     *)
(* g or y flag, as in the source, so RegExp#test keeps no state.           *)
(***************************************************************************)
EXTENDS Integers, Sequences, FiniteSets, TLC

VARIABLES
  \* ---- ErrorMonitorClass ----
  errors,          \* this.errors, newest first
  storage,         \* localStorage['error-monitor-data'] (NoItem when absent)
  storageFull,     \* localStorage.setItem throws QuotaExceededError
  now,             \* the wall clock, in hours
  reported,        \* history: number of reportError calls of this session
  loads,           \* history: number of loadPersistedErrors calls
  clears,          \* history: number of clearErrors calls
  \* ---- FixRegistryClass ----
  fixes,           \* this.fixes, in scan order
  fixHistory,      \* this.fixHistory, oldest first
  nextOid,         \* identity of the next rule object created by registerFix
  applying,        \* applyFix calls made directly, awaiting fix.fixFunction
  calls,           \* history: number of direct applyFix calls started
  applyLog,        \* history: per rule object, <<completed applyFix calls, successes>>
  lastFind,        \* result of the last direct findFix call
  lastRegister,    \* outcome of the last registerFix call
  lastApply,       \* history: how the last completed applyFix call settled
  regs,            \* history: number of registerFix calls
  removes,         \* history: number of removeFix calls
  imports,         \* history: number of importRegistry calls
  lastImport,      \* history: the last importRegistry call and how it ended
  \* ---- ErrorBoundary ----
  hasError,        \* state.hasError
  error,           \* state.error
  isRecovering,    \* state.isRecovering
  recoveryAttempts,\* state.recoveryAttempts
  autoFixApplied,  \* state.autoFixApplied
  recoveryTimer,   \* the timeout behind this.recoveryTimer
  staleTimers,     \* timeouts still pending that this.recoveryTimer no longer refers to
  mounted,         \* the component is mounted
  caught,          \* error captured by getDerivedStateFromError, commit pending
  inflight,        \* attemptAutoRecovery calls suspended at an await
  failures,        \* history: number of failures observed by the boundary
  retries,         \* history: number of handleManualRetry calls
  burst,           \* history: some failure arrived while the boundary was not quiescent,
                   \* or the boundary was retried by hand or torn down
  \* ---- what a synchronous chain of console and reportError calls works on ----
  listeners,       \* ErrorMonitorClass: this.listeners, in subscription order
  isIntercepting,  \* ConsoleInterceptorClass: this.isIntercepting
  config,          \* ConsoleInterceptorClass: this.config
  console,         \* the global console: per method "original" or the level of an interceptor
  capturedMessages,\* ConsoleInterceptorClass: this.capturedMessages, newest first
  captureListeners,\* ConsoleInterceptorClass: this.listeners
  notified,        \* history: ErrorMonitor listener invocations of the last operation
  cnotified,       \* history: capture listener invocations of the last operation
  threw,           \* history: the last operation threw to its caller
  sinkErrors,      \* history: originalConsole.error calls of catch blocks, last operation
  \* ---- MonitoringSystem and the host ----
  initialized,     \* MonitoringSystem: this.initialized
  deferredInits,   \* restart: timeouts pending whose callback calls initialize
  tokens,          \* unsubscribe closures addListener returned to the host
  lastCall,        \* history: the last operation the host performed
  ops              \* history: number of operations of each kind the host performed

storeVars    == <<errors, storage, storageFull, now, reported, loads, clears>>
registryVars == <<fixes, fixHistory, nextOid, applying, calls, applyLog,
                  lastFind, lastRegister, lastApply, regs, removes, imports, lastImport>>
boundaryVars == <<hasError, error, isRecovering, recoveryAttempts, autoFixApplied,
                  recoveryTimer, staleTimers, mounted, caught, inflight, failures,
                  retries, burst>>
pipeVars     == <<listeners, isIntercepting, config, console, capturedMessages,
                  captureListeners, notified, cnotified, threw, sinkErrors>>
hostVars     == <<initialized, deferredInits, tokens, lastCall, ops>>
vars == <<storeVars, registryVars, boundaryVars, pipeVars, hostVars>>

(***************************************************************************)
(* Bounds of the exploration                                               *)
(***************************************************************************)
MaxReports   == 101   \* reportError calls made directly by the host
MaxLoads     == 1     \* loadPersistedErrors calls
MaxClears    == 1     \* clearErrors calls
MaxSnapReports == 2   \* reportError calls in the snapshot-ageing scenario
MaxSnapLoads == 2     \* loadPersistedErrors calls in the snapshot-ageing scenario
MaxTicks     == 2     \* hours the clock advances in the snapshot-ageing scenario
MaxPrior     == 2     \* entries of a snapshot left by an earlier session
MaxRegs      == 2     \* registerFix calls after construction
MaxRemoves   == 1     \* removeFix calls
MaxApplies   == 2     \* applyFix calls made directly
MaxPending   == 2     \* direct applyFix calls in flight at once
MaxFailures  == 4     \* failures one boundary observes
MaxRetries   == 1     \* clicks on the Retry button
MaxBoundaryRegs == 1  \* registerFix calls while the boundary is observed
MaxStack     == 2     \* nested interceptor calls the call stack has room for
MaxSubs      == 3     \* addListener calls on the ErrorMonitor
MaxUnsubs    == 2     \* calls of unsubscribe closures
MaxPipeReports == 2   \* ledger entries before the host stops reporting, listener scenario
MaxCaptureOps == 4    \* start, stop, updateConfig and console calls of the application
MaxListenerStarts == 1 \* start calls in the listener scenario
MaxInits     == 2     \* MonitoringSystem.initialize calls
MaxShutdowns == 1     \* MonitoringSystem.shutdown calls
MaxRestarts  == 1     \* MonitoringSystem.restart calls
MaxImports   == 1     \* importRegistry calls
MaxHistoryApplies == 102 \* applyFix calls in the long-history scenario
MaxHistoryThrows == 1 \* of them, calls on the rule whose fixFunction may throw
MaxLiveFailures == 3  \* failures of a boundary that is never unmounted
MaxManyFailures == 5  \* failures of one kind that one boundary observes
MaxPersistReports == 22 \* ledger entries before the host stops reporting, snapshot scenario

(***************************************************************************)
(* Program constants                                                       *)
(***************************************************************************)
maxStoredErrors     == 100
SnapshotSize        == 20
DayHours            == 24
IsoWidth            == 3
MinuteWidth         == 2
StartNow            == 100
HistoryCap          == 100
HistoryKeep         == 50
maxRecoveryAttempts == 3
BaseDelay           == 2000
StepDelay           == 1000
RecentSize          == 10
WindowMinutes       == 5
CriticalAbove       == 10
WarningAbove        == 5

None    == "none"
\* null or undefined where the code expects an Error
NoError == [message |-> <<>>, stack |-> <<>>]
\* no rule: the null findFix returns
NoFix   == [oid |-> 0]
\* localStorage.getItem returning null
NoItem  == [present |-> FALSE, errors |-> <<>>, timestamp |-> <<>>]

(***************************************************************************)
(* Strings                                                                 *)
(***************************************************************************)
RECURSIVE Digits(_, _)
\* n written with w decimal digits, most significant first
Digits(n, w) == IF w = 0 THEN <<>> ELSE Append(Digits(n \div 10, w - 1), n % 10)

\* Date#toISOString: a fixed-width rendering of the instant, hours then minutes
ToISOStringAt(hours, minutes) == Digits(hours, IsoWidth) \o Digits(minutes, MinuteWidth)

\* the clock of the model shows whole hours
ToISOString(t) == ToISOStringAt(t, 0)

RECURSIVE DigitsValue(_)
DigitsValue(s) == IF s = <<>> THEN 0
                  ELSE 10 * DigitsValue(SubSeq(s, 1, Len(s) - 1)) + s[Len(s)]

\* the instant an ISO string denotes (used to state properties only)
FromISOString(s) == DigitsValue(SubSeq(s, 1, IsoWidth))

RECURSIVE StrGreater(_, _)
\* a > b on JavaScript strings: first differing unit decides, a proper prefix is smaller
StrGreater(a, b) ==
  IF a = <<>> THEN FALSE
  ELSE IF b = <<>> THEN TRUE
  ELSE IF Head(a) # Head(b) THEN Head(a) > Head(b)
  ELSE StrGreater(Tail(a), Tail(b))

Slice(s, n) == SubSeq(s, 1, IF Len(s) < n THEN Len(s) ELSE n)

RECURSIVE SelectSeqBy(_, _)
SelectSeqBy(s, keep) ==
  IF s = <<>> THEN <<>>
  ELSE IF keep[1] THEN <<Head(s)>> \o SelectSeqBy(Tail(s), Tail(keep))
  ELSE SelectSeqBy(Tail(s), Tail(keep))

(***************************************************************************)
(* Patterns (FixRegistryClass.matchesFix, shouldFilterMessage)             *)
(*                                                                         *)
(* A pattern is a set of alternatives (the regular expression's `|`); an   *)
(* alternative is a sequence of literal segments that must occur in this   *)
(* order (the expression's `.*` between them); a segment is a sequence of  *)
(* words.  A string pattern is one alternative of one segment.             *)
(***************************************************************************)
FoldedWords == {"Maximum", "Memory"}
CaseFold == [w \in FoldedWords |-> IF w = "Maximum" THEN "maximum" ELSE "memory"]
Fold(w) == IF w \in FoldedWords THEN CaseFold[w] ELSE w

SameWord(a, b, ignoreCase) == IF ignoreCase THEN Fold(a) = Fold(b) ELSE a = b

\* segment seg occurs in s starting at position i
OccursAt(s, i, seg, ignoreCase) ==
  /\ i + Len(seg) - 1 <= Len(s)
  /\ \A k \in 1..Len(seg) : SameWord(s[i + k - 1], seg[k], ignoreCase)

RECURSIVE SegmentsFrom(_, _, _, _)
SegmentsFrom(s, i, segs, ignoreCase) ==
  IF segs = <<>> THEN TRUE
  ELSE \E j \in i..Len(s) :
         /\ OccursAt(s, j, Head(segs), ignoreCase)
         /\ SegmentsFrom(s, j + Len(Head(segs)), Tail(segs), ignoreCase)

\* RegExp#test and String#includes
PatternTest(pattern, s) ==
  \E alt \in pattern.alts : SegmentsFrom(s, 1, alt, pattern.ignoreCase)

RegExp(alts) == [kind |-> "regexp", alts |-> alts, ignoreCase |-> FALSE]
RegExpI(alts) == [kind |-> "regexp", alts |-> alts, ignoreCase |-> TRUE]
Literal(text) == [kind |-> "string", alts |-> {<<text>>}, ignoreCase |-> FALSE]

(***************************************************************************)
(* Errors the host can raise                                               *)
(***************************************************************************)
MkError(message, frames) ==
  [message |-> message, stack |-> <<"Error", ":">> \o message \o frames]

ErrLodash == MkError(<<"Cannot", "find", "module", "'lodash'">>, <<"at", "App">>)
ErrNetwork == MkError(<<"Network", "Error">>, <<"at", "fetch">>)
ErrBoom == MkError(<<"boom">>, <<"at", "Widget">>)
\* the message matches no built-in rule, a stack frame does
ErrCorsFrame == MkError(<<"denied">>, <<"at", "CORS">>)
\* the result of JSON.parse(JSON.stringify(new Error(..))): own enumerable properties only
EmptyObject == [message |-> <<>>, stack |-> <<>>]

Errors == {ErrLodash, ErrNetwork, ErrBoom, ErrCorsFrame}
BoundaryErrors == {ErrLodash, ErrBoom}

(***************************************************************************)
(* ErrorMonitorClass                                                       *)
(***************************************************************************)
\* JSON.parse(JSON.stringify(report)): an Error has no enumerable own property
JsonRoundTrip(e) == [e EXCEPT !.error = EmptyObject]

\* persistErrors: the snapshot written to localStorage
Snapshot(ledger, t) ==
  [present |-> TRUE,
   errors |-> [i \in 1..Len(Slice(ledger, SnapshotSize)) |-> JsonRoundTrip(ledger[i])],
   timestamp |-> ToISOString(t)]

\* reportError without the cut to capacity
StoreErrorUncapped(ledger, e) == <<e>> \o ledger

\* reportError, lines 109-113: unshift, then cut to capacity
StoreError(ledger, e) ==
  LET grown == <<e>> \o ledger
  IN IF Len(grown) > maxStoredErrors THEN Slice(grown, maxStoredErrors) ELSE grown

(***************************************************************************)
(* The synchronous pipeline: console calls, processMessage, reportError    *)
(*                                                                         *)
(* console.error and its siblings, the interceptors and reportError call   *)
(* each other on one call stack, so a chain of them is a single step.  The *)
(* operators below thread the objects such a chain reads and writes        *)
(* through the calls, as a record.  The call stack has room for MaxStack   *)
(* nested interceptor calls; one more throws RangeError.                   *)
(***************************************************************************)
Levels == {"error", "warn", "info", "debug", "log"}
Original == "original"

\* the arguments of a console call: leading strings, then an Error object or none;
\* opaque: an object that neither JSON.stringify nor String can convert
Args(text) == [text |-> text, error |-> NoError, opaque |-> FALSE]

\* processMessage, lines 135-149: strings as they are, an Error by its message
Stringify(args) == args.text \o args.error.message

\* the constructor, lines 46-61
DefaultConfig ==
  [captureErrors |-> TRUE, captureWarnings |-> TRUE, captureInfo |-> FALSE,
   captureDebug |-> FALSE, maxCapturedMessages |-> 200, preserveOriginal |-> TRUE,
   filterPatterns |-> << RegExp({<< <<"React", "DevTools">> >>}),
                         RegExp({<< <<"Download", "the", "React", "DevTools">> >>}),
                         RegExp({<< <<"webpack-dev-server">> >>}),
                         RegExp({<< <<"HMR">>, <<"connected">> >>}),
                         RegExp({<< <<"Live", "reload", "enabled">> >>}) >>]

\* { ...this.config, ...customConfig }
MergeConfig(cfg, custom) ==
  [k \in DOMAIN cfg |-> IF k \in DOMAIN custom THEN custom[k] ELSE cfg[k]]

\* shouldFilterMessage that tests the string entries only
ShouldFilterLiteralsOnly(patterns, message) ==
  \E i \in 1..Len(patterns) :
    patterns[i].kind = "string" /\ PatternTest(patterns[i], message)

\* shouldFilterMessage: RegExp#test for a pattern, String#includes for a string
ShouldFilterMessage(patterns, message) ==
  \E i \in 1..Len(patterns) : PatternTest(patterns[i], message)

\* processMessage, lines 172-175
CaptureMessage(buffer, rec, max) ==
  LET grown == <<rec>> \o buffer
  IN IF Len(grown) > max THEN Slice(grown, max) ELSE grown

\* Array#indexOf and Array#splice of the unsubscribe closure
RemoveFirst(list, fn) ==
  LET hits == {i \in 1..Len(list) : list[i].fn = fn}
      index == IF hits = {} THEN 0 ELSE CHOOSE i \in hits : \A j \in hits : i <= j
  IN IF index > 0 THEN SubSeq(list, 1, index - 1) \o SubSeq(list, index + 1, Len(list))
     ELSE list

\* the error a throwing listener throws
ErrListener == MkError(<<"listener", "failed">>, <<"at", "listener">>)
\* RangeError: Maximum call stack size exceeded
ErrRange == MkError(<<"Maximum", "call", "stack", "size", "exceeded">>, <<"at", "console">>)

ListenerErrorArgs(e) ==
  [text |-> <<"Error", "in", "error", "listener:">>, error |-> e, opaque |-> FALSE]
StatsArgs(report) == Args(<<"Error", "Report:", report.type, "-">> \o report.error.message)
MonitorArgs(rec) == Args(<<"Monitoring", "System:", "Captured", rec.level, "-">> \o rec.message)

\* the objects a call chain works on, with empty notification logs
Machine ==
  [errors |-> errors, storage |-> storage, reported |-> reported, listeners |-> listeners,
   isIntercepting |-> isIntercepting, config |-> config, console |-> console,
   captured |-> capturedMessages, captureListeners |-> captureListeners,
   notified |-> <<>>, cnotified |-> <<>>, exc |-> FALSE, sink |-> <<>>]

RECURSIVE ConsoleCallM(_, _, _, _)
RECURSIVE ProcessMessage(_, _, _, _)
RECURSIVE NotifyCaptureFrom(_, _, _, _)
RECURSIVE ReportErrorM(_, _, _)
RECURSIVE NotifyFrom(_, _, _, _, _)

\* the catch blocks of createInterceptor (line 128), processMessage (line 182) and
\* reportToErrorMonitor (line 230): this.originalConsole.error(..., error)
CaughtBy(m, site, d) ==
  IF m.exc THEN [m EXCEPT !.exc = FALSE, !.sink = Append(@, site)] ELSE m

\* console[level](...args) called with d interceptor calls on the stack;
\* createInterceptor, lines 117-130: processMessage inside try/catch
ConsoleCallM(m, level, args, d) ==
  IF m.console[level] = Original THEN m
  ELSE IF d >= MaxStack THEN [m EXCEPT !.exc = TRUE]
  ELSE CaughtBy(ProcessMessage(m, m.console[level], args, d + 1), "interceptor", d)

\* reportToErrorMonitor: the Error among the arguments, or one made from the message
ConsoleReport(rec, args) ==
  [type |-> "console_error",
   error |-> IF args.error # NoError THEN args.error
             ELSE [message |-> rec.message, stack |-> <<"Error", "at", "processMessage">>],
   timestamp |-> rec.timestamp]

\* processMessage forwarding every level to the ErrorMonitor
ForwardedAtEveryLevel(level) == TRUE

\* processMessage, line 187: only the error level is forwarded to the ErrorMonitor
Forwarded(level) == level = "error"

\* processMessage
ProcessMessage(m, level, args, d) ==
  LET message == Stringify(args)
      rec == [level |-> level, message |-> message, timestamp |-> ToISOString(now)]
      stored == [m EXCEPT !.captured = CaptureMessage(@, rec, m.config.maxCapturedMessages)]
      told == NotifyCaptureFrom(stored, rec, 1, d)
  IN IF args.opaque THEN [m EXCEPT !.exc = TRUE]
     ELSE IF ShouldFilterMessage(m.config.filterPatterns, message) THEN m
     ELSE IF Forwarded(level)
       THEN CaughtBy(ReportErrorM(told, ConsoleReport(rec, args), d), "report", d)
       ELSE told

\* processMessage, lines 178-184: each capture listener inside try/catch
NotifyCaptureFrom(m, rec, i, d) ==
  IF i > Len(m.captureListeners) THEN m
  ELSE LET called == [m EXCEPT !.cnotified =
                        Append(@, [listener |-> i, level |-> rec.level,
                                   message |-> rec.message])]
           after == IF m.captureListeners[i] = "monitor" /\ rec.level = "error"
                      THEN CaughtBy(ConsoleCallM(called, "log", MonitorArgs(rec), d),
                                    "listener", d)
                      ELSE IF m.captureListeners[i] = "throw"
                        THEN CaughtBy([called EXCEPT !.exc = TRUE], "listener", d)
                        ELSE called
       IN NotifyCaptureFrom(after, rec, i + 1, d)

\* reportError, lines 100-113: enhance and store
StoreReport(m, report) ==
  LET enhanced == [id |-> m.reported + 1, sid |-> "cur", type |-> report.type,
                   error |-> report.error, timestamp |-> report.timestamp]
  IN [m EXCEPT !.errors = StoreError(@, enhanced), !.reported = @ + 1]

PersistFailedArgs ==
  [text |-> <<"Failed", "to", "persist", "errors", "to", "localStorage:">>,
   error |-> MkError(<<"QuotaExceededError">>, <<"at", "setItem">>), opaque |-> FALSE]

\* persistErrors without its try/catch
PersistErrorsUncaught(m, d) ==
  IF storageFull THEN [m EXCEPT !.exc = TRUE]
  ELSE [m EXCEPT !.storage = Snapshot(m.errors, now)]

\* persistErrors: setItem inside try, console.warn in the catch block
PersistErrorsM(m, d) ==
  IF storageFull THEN ConsoleCallM(m, "warn", PersistFailedArgs, d)
  ELSE [m EXCEPT !.storage = Snapshot(m.errors, now)]

\* what a listener that reads the stored item finds of the event it is called with
InSnapshot(snapshot, report) ==
  /\ snapshot.present
  /\ \E i \in 1..Len(snapshot.errors) :
       snapshot.errors[i].id = report.id /\ snapshot.errors[i].sid = report.sid

\* reportError: store, notify, then persistErrors
ReportErrorM(m, report, d) ==
  LET stored == StoreReport(m, report)
      told == NotifyFrom(stored, stored.errors[1], 1, Len(stored.listeners), d)
  IN IF told.exc THEN told ELSE PersistErrorsM(told, d)

\* reportError, lines 124-131: Array#forEach visits the indices below the length
\* it started with that are still present; a listener runs inside try, the
\* console.error of the catch block outside any try
NotifyFrom(m, report, i, n, d) ==
  IF i > n \/ i > Len(m.listeners) THEN m
  ELSE LET l == m.listeners[i]
           called == [m EXCEPT !.notified =
                        Append(@, [reg |-> l.reg, report |-> report.id,
                                   persisted |-> InSnapshot(m.storage, report)])]
           logged == ConsoleCallM(called, "log", StatsArgs(report), d)
           after ==
             CASE l.fn = "throw" -> ConsoleCallM(called, "error", ListenerErrorArgs(ErrListener), d)
               [] l.fn = "once"  -> [called EXCEPT !.listeners = RemoveFirst(@, l.fn)]
               [] l.fn = "stats" ->
                    IF logged.exc
                      THEN ConsoleCallM([logged EXCEPT !.exc = FALSE], "error",
                                        ListenerErrorArgs(ErrRange), d)
                      ELSE logged
               [] OTHER -> called
       IN IF after.exc THEN after ELSE NotifyFrom(after, report, i + 1, n, d)

\* the state a call chain leaves behind
Commit(m) ==
  /\ errors' = m.errors
  /\ storage' = m.storage
  /\ reported' = m.reported
  /\ listeners' = m.listeners
  /\ isIntercepting' = m.isIntercepting
  /\ config' = m.config
  /\ console' = m.console
  /\ capturedMessages' = m.captured
  /\ captureListeners' = m.captureListeners
  /\ notified' = m.notified
  /\ cnotified' = m.cnotified
  /\ threw' = m.exc
  /\ sinkErrors' = m.sink

Call(op, arg, message, reg) == [op |-> op, arg |-> arg, message |-> message, reg |-> reg]

\* reportError as called by any reporter
DoReportError(report) ==
  /\ Commit(ReportErrorM(Machine, report, 0))
  /\ UNCHANGED <<now, storageFull, loads, clears>>

HostReport == [type |-> "runtime_error", error |-> ErrBoom, timestamp |-> ToISOString(now)]

\* reportError called by a global handler or by application code
ReportErrorUpTo(bound) ==
  /\ reported < bound
  /\ DoReportError(HostReport)
  /\ lastCall' = Call("reportError", HostReport.type, HostReport.error.message, 0)
  /\ UNCHANGED <<registryVars, boundaryVars, initialized, deferredInits, tokens, ops>>

ReportError == ReportErrorUpTo(MaxReports)

\* loadPersistedErrors keeping the entries that are at least one day old
RecentErrorsInverted(stored, t) ==
  LET oneDayAgo == ToISOString(t - DayHours)
  IN SelectSeqBy(stored, [i \in 1..Len(stored) |-> StrGreater(oneDayAgo, stored[i].timestamp)])

\* loadPersistedErrors, line 160-163: keep the entries newer than one day
RecentErrors(stored, t) ==
  LET oneDayAgo == ToISOString(t - DayHours)
  IN SelectSeqBy(stored, [i \in 1..Len(stored) |-> StrGreater(stored[i].timestamp, oneDayAgo)])

\* loadPersistedErrors, line 164
MergeLoaded(recent, ledger) == recent \o ledger

LoadPersistedErrorsUpTo(bound) ==
  /\ loads < bound
  /\ loads' = loads + 1
  /\ errors' = IF ~storage.present THEN errors
               ELSE MergeLoaded(RecentErrors(storage.errors, now), errors)
  /\ UNCHANGED <<storage, storageFull, now, reported, clears, registryVars, boundaryVars,
                 pipeVars, hostVars>>

LoadPersistedErrors == LoadPersistedErrorsUpTo(MaxLoads)

ClearErrors ==
  /\ clears < MaxClears
  /\ clears' = clears + 1
  /\ errors' = <<>>
  /\ storage' = NoItem
  /\ UNCHANGED <<storageFull, now, reported, loads, registryVars, boundaryVars,
                 pipeVars, hostVars>>

\* other code of the origin uses up the storage quota, or frees it
QuotaChanges ==
  /\ storageFull' = ~storageFull
  /\ UNCHANGED <<errors, storage, now, reported, loads, clears, registryVars, boundaryVars,
                 pipeVars, hostVars>>

\* one hour passes
Tick ==
  /\ now < StartNow + MaxTicks
  /\ now' = now + 1
  /\ UNCHANGED <<errors, storage, storageFull, reported, loads, clears, registryVars,
                 boundaryVars,
                 pipeVars, hostVars>>

(***************************************************************************)
(* ConsoleInterceptorClass and MonitoringSystem: operations                *)
(***************************************************************************)
\* start() without an argument
NoCustom == [k \in {} |-> TRUE]
\* the configuration MonitoringSystem.initialize passes
CfgInit == [captureErrors |-> TRUE, captureWarnings |-> TRUE, captureInfo |-> FALSE,
            captureDebug |-> FALSE]
\* configurations the application passes
CfgInfo == [captureInfo |-> TRUE, captureDebug |-> TRUE, maxCapturedMessages |-> 500]
CfgNoisy == [captureWarnings |-> FALSE,
             filterPatterns |-> << Literal(<<"noisy-warning">>) >>]

CustomConfigs == << [name |-> "none", custom |-> NoCustom],
                    [name |-> "info", custom |-> CfgInfo],
                    [name |-> "noisy", custom |-> CfgNoisy] >>

\* what the application writes to the console
ArgsNoisy == [text |-> <<"noisy-warning", "from">>, error |-> ErrNetwork, opaque |-> FALSE]
\* an object without prototype that refers to itself: JSON.stringify and String throw
ArgsOpaque == [text |-> <<"state">>, error |-> NoError, opaque |-> TRUE]
ArgsHMR == Args(<<"HMR", "socket", "connected">>)
HostArgs == {ArgsNoisy, ArgsHMR}

\* start, lines 75-93: the methods of the enabled levels get an interceptor
Intercepted(cfg, bound) ==
  [l \in Levels |->
     IF \/ l = "error" /\ cfg.captureErrors
        \/ l = "warn" /\ cfg.captureWarnings
        \/ l \in {"info", "log"} /\ cfg.captureInfo
        \/ l = "debug" /\ cfg.captureDebug
       THEN l ELSE bound[l]]

\* start
StartM(m, custom) ==
  IF m.isIntercepting
    THEN ConsoleCallM(m, "warn", Args(<<"Console", "interceptor", "is", "already", "running">>), 0)
    ELSE LET cfg == MergeConfig(m.config, custom)
             started == [m EXCEPT !.config = cfg, !.isIntercepting = TRUE,
                                  !.console = Intercepted(cfg, m.console)]
         IN ConsoleCallM(started, "log", Args(<<"Console", "interceptor", "started">>), 0)

\* stop restoring console.error and console.warn only
StopErrorAndWarnOnly(m) ==
  IF ~m.isIntercepting THEN m
  ELSE [m EXCEPT !.console = [l \in Levels |-> IF l \in {"error", "warn"} THEN Original
                                                ELSE m.console[l]],
                 !.isIntercepting = FALSE]

\* stop: every method back on the function saved by the constructor
StopM(m) ==
  IF ~m.isIntercepting THEN m
  ELSE [m EXCEPT !.console = [l \in Levels |-> Original], !.isIntercepting = FALSE]

\* updateConfig
UpdateConfigM(m, custom) ==
  LET stopped == IF m.isIntercepting THEN StopM(m) ELSE m
      merged == [stopped EXCEPT !.config = MergeConfig(@, custom)]
  IN IF m.isIntercepting THEN StartM(merged, NoCustom) ELSE merged

RECURSIVE LogAll(_, _)
\* console.log, once per line
LogAll(m, lines) ==
  IF lines = <<>> THEN m
  ELSE LogAll(ConsoleCallM(m, "log", Args(Head(lines)), 0), Tail(lines))

\* initialize past its guard, lines 294-318, with setupErrorListeners and
\* displaySystemStatus; reg is the number of this addListener call
InitializeM(m, reg) ==
  LET begun == LogAll(m, << <<"Initializing">> >>)
      loaded == [begun EXCEPT !.errors =
                   IF ~begun.storage.present THEN @
                   ELSE MergeLoaded(RecentErrors(begun.storage.errors, now), @)]
      started == StartM(LogAll(loaded, << <<"Loaded", "persisted", "errors">> >>), CfgInit)
      wired == [LogAll(started, << <<"Started", "monitoring">> >>)
                  EXCEPT !.captureListeners = Append(@, "monitor"),
                         !.listeners = Append(@, [reg |-> reg, fn |-> "stats"])]
  IN LogAll(wired, << <<"Configured">>, <<"now", "active">>, <<"Total", "Errors">>,
                      <<"Console", "Messages">>, <<"Available", "Fixes">>,
                      <<"Console", "Interceptor">> >>)

\* shutdown past its guard, lines 396-400
ShutdownM(m) == StopM(LogAll(m, << <<"Shutting", "down">> >>))

Did(kind) == [ops EXCEPT ![kind] = @ + 1]

\* ErrorMonitor.addListener
AddListener ==
  /\ ops.sub < MaxSubs
  /\ \E fn \in {"ok", "throw", "once"} :
       LET registration == [reg |-> ops.sub + 1, fn |-> fn]
       IN /\ listeners' = Append(listeners, registration)
          /\ tokens' = tokens \cup {registration}
          /\ lastCall' = Call("addListener", fn, <<>>, ops.sub + 1)
  /\ ops' = Did("sub")
  /\ notified' = <<>> /\ cnotified' = <<>> /\ threw' = FALSE /\ sinkErrors' = <<>>
  /\ UNCHANGED <<storeVars, registryVars, boundaryVars, isIntercepting, config, console,
                 capturedMessages, captureListeners, initialized, deferredInits>>

\* the closure addListener returned, called by the host
Unsubscribe ==
  /\ ops.unsub < MaxUnsubs
  /\ \E token \in tokens :
       /\ listeners' = RemoveFirst(listeners, token.fn)
       /\ lastCall' = Call("unsubscribe", token.fn, <<>>, token.reg)
  /\ ops' = Did("unsub")
  /\ notified' = <<>> /\ cnotified' = <<>> /\ threw' = FALSE /\ sinkErrors' = <<>>
  /\ UNCHANGED <<storeVars, registryVars, boundaryVars, isIntercepting, config, console,
                 capturedMessages, captureListeners, initialized, deferredInits, tokens>>

\* ConsoleInterceptor.start(customConfig)
StartWith(choices, bound) ==
  /\ ops.capture < bound
  /\ \E i \in choices :
       /\ Commit(StartM(Machine, CustomConfigs[i].custom))
       /\ lastCall' = Call("start", CustomConfigs[i].name, <<>>, 0)
  /\ ops' = Did("capture")
  /\ UNCHANGED <<now, storageFull, loads, clears, registryVars, boundaryVars, initialized, deferredInits, tokens>>

Start == StartWith(1..Len(CustomConfigs), MaxCaptureOps)

\* ConsoleInterceptor.stop()
Stop ==
  /\ ops.capture < MaxCaptureOps
  /\ Commit(StopM(Machine))
  /\ lastCall' = Call("stop", "", <<>>, 0)
  /\ ops' = Did("capture")
  /\ UNCHANGED <<now, storageFull, loads, clears, registryVars, boundaryVars, initialized, deferredInits, tokens>>

\* ConsoleInterceptor.updateConfig(newConfig)
UpdateConfig ==
  /\ ops.capture < MaxCaptureOps
  /\ \E i \in 2..Len(CustomConfigs) :
       /\ Commit(UpdateConfigM(Machine, CustomConfigs[i].custom))
       /\ lastCall' = Call("updateConfig", CustomConfigs[i].name, <<>>, 0)
  /\ ops' = Did("capture")
  /\ UNCHANGED <<now, storageFull, loads, clears, registryVars, boundaryVars, initialized, deferredInits, tokens>>

\* ConsoleInterceptor.addListener called by the application
AddCaptureListener ==
  /\ ops.capture < MaxCaptureOps
  /\ \E fn \in {"quiet", "throw"} :
       /\ captureListeners' = Append(captureListeners, fn)
       /\ lastCall' = Call("addCaptureListener", fn, <<>>, 0)
  /\ ops' = Did("capture")
  /\ notified' = <<>> /\ cnotified' = <<>> /\ threw' = FALSE /\ sinkErrors' = <<>>
  /\ UNCHANGED <<storeVars, registryVars, boundaryVars, listeners, isIntercepting, config,
                 console, capturedMessages, initialized, deferredInits, tokens>>

\* console.error, console.warn, console.info, console.debug or console.log called
\* by the application
ConsoleCallWith(written) ==
  /\ ops.capture < MaxCaptureOps
  /\ \E level \in Levels, args \in written :
       /\ Commit(ConsoleCallM(Machine, level, args, 0))
       /\ lastCall' = Call("console", level, Stringify(args), 0)
  /\ ops' = Did("capture")
  /\ UNCHANGED <<now, storageFull, loads, clears, registryVars, boundaryVars, initialized, deferredInits, tokens>>

ConsoleCall == ConsoleCallWith(HostArgs)

\* initialize without its guard
AlreadyInitializedIgnored(flag) == FALSE

\* initialize, line 289
AlreadyInitialized(flag) == flag

\* initialize, lines 288-318; counted is 1 for a call of the application and 0
\* for the call made by the timeout of restart
InitializeCall(counted) ==
  IF AlreadyInitialized(initialized)
    THEN /\ Commit(ConsoleCallM(Machine, "warn",
                     Args(<<"Monitoring", "system", "is", "already", "initialized">>), 0))
         /\ UNCHANGED <<initialized, loads>>
         /\ ops' = [ops EXCEPT !.init = @ + counted]
    ELSE /\ Commit(InitializeM(Machine, ops.sub + 1))
         /\ initialized' = TRUE
         /\ loads' = loads + 1
         /\ ops' = [ops EXCEPT !.init = @ + counted, !.sub = @ + 1]

\* MonitoringSystem.initialize
Initialize ==
  /\ ops.init < MaxInits
  /\ InitializeCall(1)
  /\ lastCall' = Call("initialize", "", <<>>, 0)
  /\ UNCHANGED <<now, storageFull, clears, registryVars, boundaryVars, tokens,
                 deferredInits>>

\* shutdown, lines 391-404
ShutdownCall ==
  /\ IF initialized THEN Commit(ShutdownM(Machine)) ELSE Commit(Machine)
  /\ initialized' = FALSE

\* MonitoringSystem.shutdown
Shutdown ==
  /\ ops.shutdown < MaxShutdowns
  /\ ShutdownCall
  /\ lastCall' = Call("shutdown", "", <<>>, 0)
  /\ ops' = Did("shutdown")
  /\ UNCHANGED <<now, storageFull, loads, clears, registryVars, boundaryVars, tokens,
                 deferredInits>>

\* MonitoringSystem.restart: shutdown now, initialize from a timeout of 1000 ms
Restart ==
  /\ ops.restart < MaxRestarts
  /\ ShutdownCall
  /\ deferredInits' = deferredInits + 1
  /\ lastCall' = Call("restart", "", <<>>, 0)
  /\ ops' = Did("restart")
  /\ UNCHANGED <<now, storageFull, loads, clears, registryVars, boundaryVars, tokens>>

\* the callback restart handed to setTimeout, line 414
DeferredInitialize ==
  /\ deferredInits > 0
  /\ deferredInits' = deferredInits - 1
  /\ InitializeCall(0)
  /\ UNCHANGED <<now, storageFull, clears, registryVars, boundaryVars, tokens, lastCall>>

\* getErrorStats, line 196: recentErrors
StatsRecentErrors(ledger) == Slice(ledger, RecentSize)

\* getSystemHealth, lines 363-367: the recent errors newer than five minutes
RecentCount(ledger, t) ==
  LET fiveMinutesAgo == ToISOStringAt(t - 1, 60 - WindowMinutes)
      recent == StatsRecentErrors(ledger)
  IN Cardinality({i \in 1..Len(recent) : StrGreater(recent[i].timestamp, fiveMinutesAgo)})

\* getSystemHealth, lines 369-374: status
GetSystemHealth(ledger, t) ==
  IF RecentCount(ledger, t) > CriticalAbove THEN "critical"
  ELSE IF RecentCount(ledger, t) > WarningAbove THEN "warning"
  ELSE "healthy"

(***************************************************************************)
(* FixRegistryClass: rules                                                 *)
(***************************************************************************)
Rule(id, name, pattern, priority, fixFunction) ==
  [id |-> id, name |-> name, errorPattern |-> pattern, conditions |-> <<>>,
   hasPriority |-> TRUE, priority |-> priority, fixFunction |-> fixFunction, slow |-> FALSE]

\* initializeBasicFixes, in registration order
BuiltinRules == <<
  Rule("react-key-warning", "React Key Warning Fix",
       RegExp({<< <<"Warning", ":", "Each", "child", "in", "a", "list", "should",
                    "have", "a", "unique", "key", "prop">> >>}), 3, "advise"),
  Rule("missing-dependency", "Missing Dependency Fix",
       RegExp({<< <<"Module", "not", "found">> >>, << <<"Cannot", "resolve", "module">> >>,
               << <<"Cannot", "find", "module">> >>}), 5, "advise"),
  Rule("cors-error", "CORS Error Fix",
       RegExp({<< <<"CORS">> >>, << <<"Cross-Origin", "Request", "Blocked">> >>,
               << <<"blocked", "by", "CORS", "policy">> >>}), 4, "advise"),
  Rule("undefined-variable", "Undefined Variable Recovery",
       RegExp({<< <<"is", "not", "defined">> >>,
               << <<"Cannot", "read", "prop">>, <<"of", "undefined">> >>,
               << <<"Cannot", "read", "prop">>, <<"of", "null">> >>}), 3, "advise"),
  Rule("network-error", "Network Error Recovery",
       RegExp({<< <<"Network", "Error">> >>, << <<"fetch">>, <<"failed">> >>,
               << <<"NetworkError">> >>, << <<"ERR_NETWORK">> >>}), 4, "retry"),
  Rule("memory-leak", "Memory Leak Prevention",
       RegExpI({<< <<"Maximum", "update", "depth", "exceeded">> >>,
                << <<"Memory", "leak">> >>}), 5, "gc"),
  Rule("state-update-unmounted", "State Update on Unmounted Component",
       RegExp({<< <<"Warning">>, <<"setState">>, <<"unmounted", "component">> >>,
               << <<"Cannot", "read", "prop">>, <<"setState">>, <<"of", "undefined">> >>}),
       3, "advise") >>

\* rules the application registers
RuleRetryBoom == [Rule("custom-retry", "Retry widget", Literal(<<"boom">>), 6, "user")
                    EXCEPT !.slow = TRUE]
RuleLowModule == Rule("custom-low", "Module hint",
                      RegExp({<< <<"Cannot", "find", "module">> >>}), 1, "advise")
RuleHighModule == [Rule("custom-high", "Module guard", Literal(<<"module">>), 7, "user")
                     EXCEPT !.conditions = <<"true">>]
RuleGated == [Rule("custom-gated", "Gated", Literal(<<"module">>), 8, "retry")
                EXCEPT !.conditions = <<"true", "throw">>]
RuleDuplicate == Rule("missing-dependency", "Shadow", Literal(<<"boom">>), 9, "retry")
\* name: '' is falsy, as a missing field is
RuleNameless == Rule("custom-nameless", "", Literal(<<"boom">>), 9, "retry")

UserRules == {RuleLowModule, RuleHighModule, RuleGated, RuleDuplicate, RuleNameless}
\* ids application code removes, and ids of the rules it applies directly
RemovedIds == {"missing-dependency", "custom-high", "custom-absent"}
AppliedIds == {"memory-leak", "custom-high"}

\* what a fixFunction can resolve to: "true", "false", or "throw" when it rejects
Outcomes(fixFunction) ==
  CASE fixFunction = "advise" -> {"false"}
    [] fixFunction = "retry"  -> {"true"}
    [] fixFunction = "gc"     -> {"true", "false"}
    \* a JSON value in the place of the function: calling it throws TypeError
    [] fixFunction = "text"   -> {"throw"}
    [] OTHER                  -> {"true", "false", "throw"}

RECURSIVE Gcd(_, _)
Gcd(a, b) == IF b = 0 THEN a ELSE Gcd(b, a % b)

\* registerFix, lines 502-507
CompleteFix(fix, oid, t) ==
  [oid |-> oid, id |-> fix.id, name |-> fix.name, errorPattern |-> fix.errorPattern,
   conditions |-> fix.conditions, hasPriority |-> fix.hasPriority, priority |-> fix.priority,
   fixFunction |-> fix.fixFunction, slow |-> fix.slow,
   rateNum |-> 0, rateDen |-> 1, timesUsed |-> 0, lastUsed |-> ToISOString(t)]

\* sortFixesByPriority, line 514: (a, b) => b.priority - a.priority; with a missing
\* priority the difference is NaN, which Array#sort takes as +0
Comparator(a, b) ==
  IF a.hasPriority /\ b.hasPriority THEN b.priority - a.priority ELSE 0

RECURSIVE InsertByPriority(_, _)
\* x goes behind every rule that the comparator does not put after it
InsertByPriority(sorted, x) ==
  IF sorted = <<>> THEN <<x>>
  ELSE IF Comparator(x, Head(sorted)) < 0 THEN <<x>> \o sorted
  ELSE <<Head(sorted)>> \o InsertByPriority(Tail(sorted), x)

\* registerFix that leaves the pushed rule at the end
SortFixesSkipped(list) == list

RECURSIVE SortFixesByPriority(_)
\* Array#sort with (a, b) => b.priority - a.priority: stable, descending
SortFixesByPriority(list) ==
  IF list = <<>> THEN <<>>
  ELSE InsertByPriority(SortFixesByPriority(SubSeq(list, 1, Len(list) - 1)), list[Len(list)])

RECURSIVE RunEnd(_, _, _)
\* V8, CountAndMakeRun: the leading run ends where the order turns
RunEnd(list, i, descending) ==
  IF i > Len(list) THEN Len(list)
  ELSE LET order == Comparator(list[i], list[i - 1])
       IN IF (descending /\ order >= 0) \/ (~descending /\ order < 0) THEN i - 1
          ELSE RunEnd(list, i + 1, descending)

RECURSIVE BinarySearch(_, _, _, _)
\* V8, BinaryInsertionSort: how many of the first `right` elements stay ahead of pivot
BinarySearch(list, pivot, left, right) ==
  IF left >= right THEN left
  ELSE LET mid == left + ((right - left) \div 2)
       IN IF Comparator(pivot, list[mid + 1]) < 0
            THEN BinarySearch(list, pivot, left, mid)
            ELSE BinarySearch(list, pivot, mid + 1, right)

InsertAt(list, p, x) == SubSeq(list, 1, p) \o <<x>> \o SubSeq(list, p + 1, Len(list))

RECURSIVE BinaryInsertFrom(_, _)
BinaryInsertFrom(list, start) ==
  IF start > Len(list) THEN list
  ELSE LET p == BinarySearch(list, list[start], 0, start - 1)
       IN BinaryInsertFrom(InsertAt(SubSeq(list, 1, start - 1), p, list[start])
                             \o SubSeq(list, start + 1, Len(list)), start + 1)

\* Array#sort of V8 on an array shorter than 64: the leading run, reversed when it
\* descends strictly, then binary insertion of the elements behind it
TimSortShort(list) ==
  IF Len(list) < 2 THEN list
  ELSE LET descending == Comparator(list[2], list[1]) < 0
           run == RunEnd(list, 3, descending)
           made == IF descending
                     THEN [i \in 1..Len(list) |-> IF i <= run THEN list[run + 1 - i] ELSE list[i]]
                     ELSE list
       IN BinaryInsertFrom(made, run + 1)

\* what this.fixes.sort(...) can leave.  Where the comparator orders the rules
\* consistently every implementation agrees; where a rule has no priority the
\* order is implementation-defined: a stable insertion from the front, or V8
SortOutcomes(list) == {SortFixesByPriority(list), TimSortShort(list)}

\* registerFix without the check for duplicate ids
RegisterOutcomeUnchecked(list, fix) ==
  IF fix.id = "" \/ fix.name = "" \/ fix.errorPattern.alts = {} \/ fix.fixFunction = ""
    THEN "invalid"
  ELSE "ok"

\* registerFix: "ok", or the error it throws
RegisterOutcome(list, fix) ==
  IF fix.id = "" \/ fix.name = "" \/ fix.errorPattern.alts = {} \/ fix.fixFunction = ""
    THEN "invalid"
  ELSE IF \E i \in 1..Len(list) : list[i].id = fix.id THEN "duplicate"
  ELSE "ok"

\* registerFix: the rule list it leaves
RegisterInto(list, fix, oid, t) ==
  IF RegisterOutcome(list, fix) = "ok"
    THEN SortFixesByPriority(Append(list, CompleteFix(fix, oid, t)))
    ELSE list

\* registerFix: the rule lists it can leave
RegisterOutcomes(list, fix, oid, t) ==
  IF RegisterOutcome(list, fix) = "ok"
    THEN SortOutcomes(Append(list, CompleteFix(fix, oid, t)))
    ELSE {list}

RECURSIVE RegisterAll(_, _)
\* the constructor: initializeBasicFixes
RegisterAll(rules, t) ==
  IF rules = <<>> THEN <<>>
  ELSE RegisterInto(RegisterAll(SubSeq(rules, 1, Len(rules) - 1), t),
                    rules[Len(rules)], Len(rules), t)

\* matchesFix
MatchesFix(err, fix) ==
  /\ \/ PatternTest(fix.errorPattern, err.message)
     \/ PatternTest(fix.errorPattern, err.stack)
  /\ \A i \in 1..Len(fix.conditions) : fix.conditions[i] = "true"

RECURSIVE FindFix(_, _)
\* findFix: the first rule of the list that matches, or NoFix
FindFix(list, err) ==
  IF list = <<>> THEN NoFix
  ELSE IF MatchesFix(err, Head(list)) THEN Head(list)
  ELSE FindFix(Tail(list), err)

\* applyFix, lines 566-573: the statistics of the applied rule object
UpdateStatistics(fix, success, t) ==
  LET used == fix.timesUsed + 1
      num == fix.rateNum * (used - 1) + fix.rateDen
      den == fix.rateDen * used
      g == Gcd(num, den)
  IN IF success
       THEN [fix EXCEPT !.timesUsed = used, !.lastUsed = ToISOString(t),
                        !.rateNum = num \div g, !.rateDen = den \div g]
       ELSE [fix EXCEPT !.timesUsed = used, !.lastUsed = ToISOString(t)]

\* applyFix, lines 576-586
RecordAttempt(history, entry) ==
  LET grown == Append(history, entry)
  IN IF Len(grown) > HistoryCap
       THEN SubSeq(grown, Len(grown) - HistoryKeep + 1, Len(grown))
       ELSE grown

\* applyFix without its catch: a fixFunction that rejects makes applyFix reject
ApplyFixResultRethrown(outcome) == IF outcome = "throw" THEN "rejected" ELSE outcome

\* applyFix, lines 588 and 599-600: what the promise it returned settles to
ApplyFixResult(outcome) == IF outcome = "true" THEN "true" ELSE "false"

\* applyFix from the point where fix.fixFunction settles with the given outcome;
\* the catch block records the attempt without trimming the history
DoApplyFix(oid, id, outcome) ==
  /\ fixes' = [i \in 1..Len(fixes) |->
                 IF fixes[i].oid = oid /\ outcome # "throw"
                   THEN UpdateStatistics(fixes[i], outcome = "true", now)
                   ELSE fixes[i]]
  /\ fixHistory' = LET entry == [fix |-> oid, id |-> id, success |-> (outcome = "true")]
                   IN IF outcome = "throw" THEN Append(fixHistory, entry)
                      ELSE RecordAttempt(fixHistory, entry)
  /\ lastApply' = [fix |-> oid, id |-> id, settled |-> outcome,
                   result |-> ApplyFixResult(outcome)]
  /\ applyLog' = [applyLog EXCEPT ![oid] = <<@[1] + 1, @[2] + (IF outcome = "true" THEN 1 ELSE 0)>>]

RegisterFixFrom(rules, bound) ==
  /\ regs < bound
  /\ \E fix \in rules :
       LET outcome == RegisterOutcome(fixes, fix)
       IN /\ fixes' \in RegisterOutcomes(fixes, fix, nextOid, now)
          /\ lastRegister' = [id |-> fix.id, outcome |-> outcome]
          /\ nextOid' = IF outcome = "ok" THEN nextOid + 1 ELSE nextOid
          /\ applyLog' = IF outcome = "ok" THEN applyLog @@ (nextOid :> <<0, 0>>) ELSE applyLog
  /\ regs' = regs + 1
  /\ UNCHANGED <<fixHistory, applying, calls, lastFind, lastApply, removes, imports,
                 lastImport, storeVars, boundaryVars, pipeVars, hostVars>>

RegisterFix == RegisterFixFrom(UserRules, MaxRegs)

\* removeFix
RemoveFix ==
  /\ removes < MaxRemoves
  /\ \E id \in RemovedIds :
       LET hits == {i \in 1..Len(fixes) : fixes[i].id = id}
           index == IF hits = {} THEN 0 ELSE CHOOSE i \in hits : \A j \in hits : i <= j
       IN fixes' = IF index > 0
                     THEN SubSeq(fixes, 1, index - 1) \o SubSeq(fixes, index + 1, Len(fixes))
                     ELSE fixes
  /\ removes' = removes + 1
  /\ UNCHANGED <<fixHistory, nextOid, applying, calls, applyLog, lastFind, lastRegister,
                 lastApply, regs, imports, lastImport, storeVars, boundaryVars,
                 pipeVars, hostVars>>

\* JSON.parse(JSON.stringify(fix)): a function is left out, a RegExp is written as {}
\* (which String#includes reads as "[object Object]"), conditions become nulls
ExportRule(fix) ==
  [id |-> fix.id, name |-> fix.name,
   errorPattern |-> IF fix.errorPattern.kind = "regexp"
                      THEN [kind |-> "object", alts |-> {<< <<"[object", "Object]">> >>},
                            ignoreCase |-> FALSE]
                      ELSE fix.errorPattern,
   conditions |-> [i \in 1..Len(fix.conditions) |-> "null"],
   hasPriority |-> fix.hasPriority, priority |-> fix.priority,
   fixFunction |-> "", slow |-> FALSE]

\* exportRegistry, lines 649-654, read back by JSON.parse: the fixes array
ExportedFixes(list) == [i \in 1..Len(list) |-> ExportRule(list[i])]

\* rules of a document written by hand: the place of the function holds a string
ImportedRanked == Rule("imported-ranked", "Imported", Literal(<<"boom">>), 4, "text")
\* the same without a priority property
ImportedUnranked ==
  [Rule("imported-unranked", "Unranked", Literal(<<"boom">>), 0, "text")
     EXCEPT !.hasPriority = FALSE]

\* the strings the application hands to importRegistry: json, the text parses;
\* list, the parsed value has an array under "fixes" ("keyed" has an object there)
Documents(list) ==
  { [name |-> "exported", json |-> TRUE, list |-> TRUE, fixes |-> ExportedFixes(list)],
    [name |-> "ranked", json |-> TRUE, list |-> TRUE, fixes |-> <<ImportedRanked>>],
    [name |-> "unranked", json |-> TRUE, list |-> TRUE, fixes |-> <<ImportedUnranked>>],
    [name |-> "keyed", json |-> TRUE, list |-> FALSE, fixes |-> <<ImportedRanked>>],
    [name |-> "malformed", json |-> FALSE, list |-> FALSE, fixes |-> <<>>] }

\* importRegistry, lines 659-660: the entries it goes through
EntriesRead(doc) == IF doc.json /\ doc.list THEN doc.fixes ELSE <<>>

RECURSIVE ImportOutcomes(_, _, _, _)
\* importRegistry, lines 662-670: registerFix for each rule that has an id, a name
\* and an errorPattern; what registerFix throws is caught and logged
ImportOutcomes(list, oid, rules, t) ==
  IF rules = <<>> THEN {[fixes |-> list, nextOid |-> oid]}
  ELSE LET fix == Head(rules)
           passes == fix.id # "" /\ fix.name # "" /\ fix.errorPattern.alts # {}
       IN IF passes /\ RegisterOutcome(list, fix) = "ok"
            THEN UNION {ImportOutcomes(l, oid + 1, Tail(rules), t) :
                          l \in RegisterOutcomes(list, fix, oid, t)}
            ELSE ImportOutcomes(list, oid, Tail(rules), t)

\* importRegistry
ImportRegistry ==
  /\ imports < MaxImports
  /\ \E doc \in Documents(fixes) :
       /\ lastImport' = [document |-> doc.name,
                         outcome |-> IF doc.json THEN "returned" ELSE "format error"]
       /\ \E r \in ImportOutcomes(fixes, nextOid, EntriesRead(doc), now) :
            /\ fixes' = r.fixes
            /\ nextOid' = r.nextOid
            /\ applyLog' = [oid \in DOMAIN applyLog \cup nextOid..(r.nextOid - 1) |->
                              IF oid \in DOMAIN applyLog THEN applyLog[oid] ELSE <<0, 0>>]
  /\ imports' = imports + 1
  /\ UNCHANGED <<fixHistory, applying, calls, lastFind, lastRegister, lastApply, regs,
                 removes, storeVars, boundaryVars, pipeVars, hostVars>>

\* findFix called by application code
FindFixCall ==
  /\ \E err \in Errors :
       LET fix == FindFix(fixes, err)
       IN lastFind' = [error |-> err, fix |-> fix.oid]
  /\ lastFind' # lastFind
  /\ UNCHANGED <<fixes, fixHistory, nextOid, applying, calls, applyLog, lastRegister,
                 lastApply, regs, removes, imports, lastImport, storeVars, boundaryVars,
                 pipeVars, hostVars>>

\* applyFix calls made on a rule object so far, settled or not
CallsOn(oid) == applyLog[oid][1] + Cardinality({a \in applying : a.fix = oid})

\* applyFix called by application code, up to `await fix.fixFunction(error, context)`;
\* budget gives, per rule id, how many calls the application makes on that rule
ApplyFixCallFor(budget, bound, pending) ==
  /\ calls < bound
  /\ Cardinality(applying) < pending
  /\ \E i \in 1..Len(fixes) :
       /\ fixes[i].id \in DOMAIN budget
       /\ CallsOn(fixes[i].oid) < budget[fixes[i].id]
       /\ applying' = applying \cup {[call |-> calls + 1, fix |-> fixes[i].oid, id |-> fixes[i].id,
                                   fixFunction |-> fixes[i].fixFunction]}
  /\ calls' = calls + 1
  /\ UNCHANGED <<fixes, fixHistory, nextOid, applyLog, lastFind, lastRegister,
                 lastApply, regs, removes, imports, lastImport, storeVars, boundaryVars,
                 pipeVars, hostVars>>

ApplyFixCall == ApplyFixCallFor([id \in AppliedIds |-> MaxApplies], MaxApplies, MaxPending)

\* the fixFunction of a direct applyFix call settles
ApplyFixReturn ==
  /\ \E a \in applying :
       /\ applying' = applying \ {a}
       /\ \E outcome \in Outcomes(a.fixFunction) : DoApplyFix(a.fix, a.id, outcome)
  /\ UNCHANGED <<nextOid, calls, lastFind, lastRegister, regs, removes, imports,
                 lastImport, storeVars, boundaryVars, pipeVars, hostVars>>

(***************************************************************************)
(* ErrorBoundary                                                           *)
(*                                                                         *)
(* setState takes effect at once while the component is mounted and is     *)
(* ignored after it is unmounted.  A continuation that waits only for      *)
(* promises that are already settled (findFix, and applyFix of a rule      *)
(* whose fixFunction has no await) runs in the microtask queue, ahead of   *)
(* every timer and click.                                                  *)
(***************************************************************************)
NoTimer == [pending |-> FALSE, delay |-> 0, by |-> 0]

MicrotasksPending ==
  \E a \in inflight : a.pc = "findFix" \/ (a.pc = "applyFix" /\ ~a.slow)

Quiescent == ~hasError /\ inflight = {} /\ ~recoveryTimer.pending

\* scheduleRecovery computing the delay from the attempt about to be counted
ScheduleRecoveryNextAttempt(by) ==
  [pending |-> TRUE, delay |-> BaseDelay + (recoveryAttempts + 1) * StepDelay, by |-> by]

\* scheduleRecovery: replaces the pending timeout, delay read from the state
ScheduleRecovery(by) ==
  [pending |-> TRUE, delay |-> BaseDelay + recoveryAttempts * StepDelay, by |-> by]

\* scheduleRecovery without clearTimeout: the timeout it replaces stays pending
StaleWithoutClear(timer, stale) == IF timer.pending THEN stale + 1 ELSE stale

\* scheduleRecovery, lines 555-558: the timeout this.recoveryTimer refers to is
\* cleared before the field is overwritten, none is left behind
StaleAfterSchedule(timer, stale) == stale

\* attemptAutoRecovery scheduling the reset after a successful fix only
TimerAfterFixOnly(result, by) ==
  IF result = "true" THEN ScheduleRecovery(by) ELSE recoveryTimer

\* attemptAutoRecovery, lines 534-546: scheduleRecovery after applyFix returned true
\* (line 541) and on the generic path, no rule or applyFix returned false (line 546)
TimerAfterAttempt(result, by) == ScheduleRecovery(by)

\* attemptAutoRecovery giving up one failure later
BudgetSpentOffByOne(attempts) == attempts > maxRecoveryAttempts

\* attemptAutoRecovery, line 523
BudgetSpent(attempts) == attempts >= maxRecoveryAttempts

\* getDerivedStateFromError: the render phase of a failure
GetDerivedStateFromErrorOf(thrown, bound) ==
  /\ mounted /\ caught = NoError
  /\ failures < bound
  /\ \E err \in thrown :
       /\ hasError' = TRUE
       /\ error' = err
       /\ caught' = err
  /\ burst' = (burst \/ ~Quiescent)
  /\ UNCHANGED <<isRecovering, recoveryAttempts, autoFixApplied, recoveryTimer, staleTimers, mounted,
                 inflight, failures, retries, storeVars, registryVars,
                 pipeVars, hostVars>>

GetDerivedStateFromError == GetDerivedStateFromErrorOf(BoundaryErrors, MaxFailures)

\* componentDidCatch reporting only while the budget lasts
ReportsFailureWithinBudget(attempts) == ~BudgetSpent(attempts)

\* componentDidCatch, lines 499-508: reportError is called whatever the state is
ReportsFailure(attempts) == TRUE

\* componentDidCatch: report, then attemptAutoRecovery up to its first await
ComponentDidCatch ==
  /\ mounted /\ caught # NoError
  /\ error' = caught
  /\ IF ReportsFailure(recoveryAttempts)
       THEN DoReportError([type |-> "react_boundary", error |-> caught,
                           timestamp |-> ToISOString(now)])
       ELSE Commit(Machine) /\ UNCHANGED <<now, storageFull, loads, clears>>
  /\ failures' = failures + 1
  /\ caught' = NoError
  /\ IF BudgetSpent(recoveryAttempts)
       THEN UNCHANGED <<isRecovering, inflight>>
       ELSE /\ isRecovering' = TRUE
            /\ inflight' = inflight \cup {[id |-> failures + 1, error |-> caught,
                                           pc |-> "findFix", fix |-> 0, rule |-> None,
                                           fixFunction |-> None, slow |-> FALSE]}
  /\ UNCHANGED <<hasError, recoveryAttempts, autoFixApplied, recoveryTimer, staleTimers, mounted,
                 retries, burst, registryVars, hostVars>>

\* attemptAutoRecovery resumes after `await FixRegistry.findFix(error)`
FindFixDone ==
  /\ caught = NoError
  /\ \E a \in inflight :
       /\ a.pc = "findFix"
       /\ LET fix == FindFix(fixes, a.error)
          IN IF fix.oid # 0
               THEN /\ inflight' = (inflight \ {a}) \cup
                                     {[a EXCEPT !.pc = "applyFix", !.fix = fix.oid,
                                                !.rule = fix.id,
                                                !.fixFunction = fix.fixFunction,
                                                !.slow = fix.slow]}
                    /\ UNCHANGED <<recoveryTimer, staleTimers>>
               ELSE /\ inflight' = inflight \ {a}
                    /\ recoveryTimer' = TimerAfterAttempt("none", a.id)
                    /\ staleTimers' = StaleAfterSchedule(recoveryTimer, staleTimers)
  /\ UNCHANGED <<hasError, error, isRecovering, recoveryAttempts, autoFixApplied, mounted,
                 caught, failures, retries, burst, storeVars, registryVars,
                 pipeVars, hostVars>>

\* attemptAutoRecovery resumes after `await FixRegistry.applyFix(fix, error)`
ApplyFixDone ==
  /\ caught = NoError
  /\ \E a \in inflight :
       /\ a.pc = "applyFix"
       /\ inflight' = inflight \ {a}
       /\ \E outcome \in Outcomes(a.fixFunction) :
            /\ DoApplyFix(a.fix, a.rule, outcome)
            /\ autoFixApplied' = IF ApplyFixResult(outcome) = "true" /\ mounted
                                   THEN TRUE ELSE autoFixApplied
            /\ recoveryTimer' = TimerAfterAttempt(ApplyFixResult(outcome), a.id)
            /\ staleTimers' = StaleAfterSchedule(recoveryTimer, staleTimers)
  /\ UNCHANGED <<hasError, error, isRecovering, recoveryAttempts, mounted, caught,
                 failures, retries, burst, storeVars, pipeVars, hostVars,
                 nextOid, applying, calls, lastFind, lastRegister, regs, removes,
                 imports, lastImport>>

\* the callback scheduleRecovery handed to setTimeout
RecoveryTimerFires ==
  /\ caught = NoError
  /\ ~MicrotasksPending
  /\ \/ /\ recoveryTimer.pending
        /\ recoveryTimer' = NoTimer
        /\ UNCHANGED staleTimers
     \/ /\ staleTimers > 0
        /\ staleTimers' = staleTimers - 1
        /\ UNCHANGED recoveryTimer
  /\ IF mounted
       THEN /\ hasError' = FALSE
            /\ error' = NoError
            /\ isRecovering' = FALSE
            /\ recoveryAttempts' = recoveryAttempts + 1
       ELSE UNCHANGED <<hasError, error, isRecovering, recoveryAttempts>>
  /\ UNCHANGED <<autoFixApplied, mounted, caught, inflight, failures, retries, burst,
                 storeVars, registryVars,
                 pipeVars, hostVars>>

\* componentWillUnmount
ComponentWillUnmount ==
  /\ mounted /\ caught = NoError
  /\ mounted' = FALSE
  /\ recoveryTimer' = NoTimer
  /\ burst' = TRUE
  /\ UNCHANGED <<staleTimers, hasError, error, isRecovering, recoveryAttempts, autoFixApplied, caught,
                 inflight, failures, retries, storeVars, registryVars,
                 pipeVars, hostVars>>

\* handleManualRetry: the Retry button, rendered with hasError and disabled while recovering
HandleManualRetry ==
  /\ mounted /\ caught = NoError
  /\ hasError /\ ~isRecovering
  /\ ~MicrotasksPending
  /\ retries < MaxRetries
  /\ hasError' = FALSE
  /\ error' = NoError
  /\ isRecovering' = FALSE
  /\ autoFixApplied' = FALSE
  /\ retries' = retries + 1
  /\ burst' = TRUE
  /\ UNCHANGED <<recoveryAttempts, recoveryTimer, staleTimers, mounted, caught, inflight, failures,
                 storeVars, registryVars,
                 pipeVars, hostVars>>

(***************************************************************************)
(* Specifications                                                          *)
(***************************************************************************)
InitStore ==
  /\ errors = <<>>
  /\ storage = NoItem
  /\ storageFull = FALSE
  /\ now = StartNow
  /\ reported = 0
  /\ loads = 0
  /\ clears = 0

InitRegistry ==
  /\ fixes = RegisterAll(BuiltinRules, StartNow)
  /\ fixHistory = <<>>
  /\ nextOid = Len(BuiltinRules) + 1
  /\ applying = {}
  /\ calls = 0
  /\ applyLog = [oid \in 1..Len(BuiltinRules) |-> <<0, 0>>]
  /\ lastFind = [error |-> NoError, fix |-> 0]
  /\ lastRegister = [id |-> None, outcome |-> None]
  /\ lastApply = [fix |-> 0, id |-> None, settled |-> None, result |-> None]
  /\ regs = 0
  /\ removes = 0
  /\ imports = 0
  /\ lastImport = [document |-> None, outcome |-> None]

InitBoundary ==
  /\ hasError = FALSE
  /\ error = NoError
  /\ isRecovering = FALSE
  /\ recoveryAttempts = 0
  /\ autoFixApplied = FALSE
  /\ recoveryTimer = NoTimer
  /\ staleTimers = 0
  /\ mounted = TRUE
  /\ caught = NoError
  /\ inflight = {}
  /\ failures = 0
  /\ retries = 0
  /\ burst = FALSE

\* nothing subscribed, the Capture Layer constructed and not started
InitPipe ==
  /\ listeners = <<>>
  /\ isIntercepting = FALSE
  /\ config = DefaultConfig
  /\ console = [l \in Levels |-> Original]
  /\ capturedMessages = <<>>
  /\ captureListeners = <<>>
  /\ notified = <<>>
  /\ cnotified = <<>>
  /\ threw = FALSE
  /\ sinkErrors = <<>>

InitHost ==
  /\ initialized = FALSE
  /\ deferredInits = 0
  /\ tokens = {}
  /\ lastCall = Call("", "", <<>>, 0)
  /\ ops = [sub |-> 0, unsub |-> 0, capture |-> 0, init |-> 0, shutdown |-> 0,
           restart |-> 0]

Init == InitStore /\ InitRegistry /\ InitBoundary /\ InitPipe /\ InitHost

\* one boundary, the registry it consults and the store it reports to
Next ==
  \/ GetDerivedStateFromError
  \/ ComponentDidCatch
  \/ FindFixDone
  \/ ApplyFixDone
  \/ RecoveryTimerFires
  \/ ComponentWillUnmount
  \/ HandleManualRetry
  \/ RegisterFixFrom({RuleRetryBoom}, MaxBoundaryRegs)

Spec == Init /\ [][Next]_vars

\* one boundary that stays mounted and observes more failures, all of one kind
NextManyFailures ==
  \/ GetDerivedStateFromErrorOf({ErrBoom}, MaxManyFailures)
  \/ ComponentDidCatch
  \/ FindFixDone
  \/ ApplyFixDone
  \/ RecoveryTimerFires
  \/ HandleManualRetry
  \/ RegisterFixFrom({RuleRetryBoom}, MaxBoundaryRegs)

SpecManyFailures == Init /\ [][NextManyFailures]_vars

\* a boundary that is never unmounted; React commits what it rendered, promise
\* continuations and timers run, and every fixFunction settles
NextLive ==
  \/ GetDerivedStateFromErrorOf(BoundaryErrors, MaxLiveFailures)
  \/ ComponentDidCatch
  \/ FindFixDone
  \/ ApplyFixDone
  \/ RecoveryTimerFires
  \/ RegisterFixFrom({RuleRetryBoom}, MaxBoundaryRegs)

SpecLive ==
  /\ Init /\ [][NextLive]_vars
  /\ WF_vars(ComponentDidCatch) /\ WF_vars(FindFixDone)
  /\ WF_vars(ApplyFixDone) /\ WF_vars(RecoveryTimerFires)

\* the registry used directly
NextRegistry ==
  \/ RegisterFix
  \/ RemoveFix
  \/ FindFixCall
  \/ ApplyFixCall
  \/ ApplyFixReturn

SpecRegistry == Init /\ [][NextRegistry]_vars

\* the catalogue maintained by the application: rules registered, removed,
\* imported and applied
NextCatalog ==
  \/ RegisterFix
  \/ RemoveFix
  \/ ImportRegistry
  \/ ApplyFixCall
  \/ ApplyFixReturn

SpecCatalog == Init /\ [][NextCatalog]_vars

\* a long series of applyFix calls, one at a time: on a built-in rule, whose
\* fixFunction resolves to false, and on a rule of the application
HistoryBudget ==
  [id \in {"missing-dependency", "custom-high"} |->
     IF id = "custom-high" THEN MaxHistoryThrows ELSE MaxHistoryApplies]

NextHistory ==
  \/ RegisterFixFrom({RuleHighModule}, 1)
  \/ ApplyFixCallFor(HistoryBudget, MaxHistoryApplies, 1)
  \/ ApplyFixReturn

SpecHistory == Init /\ [][NextHistory]_vars

\* the store under reportError alone
NextReport == ReportError

SpecReport == Init /\ [][NextReport]_vars

\* the store under reportError, loadPersistedErrors and clearErrors
NextStore ==
  \/ ReportError
  \/ LoadPersistedErrors
  \/ ClearErrors

SpecStore == Init /\ [][NextStore]_vars

\* a session that starts with the snapshot an earlier session left behind
PriorTimes == {StartNow - 25, StartNow - 24, StartNow - 23, StartNow - 1}

PriorEvent(n, t) ==
  [id |-> n, sid |-> "old", type |-> "runtime_error", error |-> EmptyObject,
   timestamp |-> ToISOString(t)]

\* what persistErrors of the earlier session can have written: newest first
PriorSnapshots ==
  {NoItem} \cup
  {[present |-> TRUE, errors |-> [i \in 1..n |-> PriorEvent(n + 1 - i, ts[i])],
    timestamp |-> ToISOString(StartNow - 1)] :
     <<n, ts>> \in {<<m, f>> \in UNION {{k} \X [1..k -> PriorTimes] : k \in 0..MaxPrior} :
                       \A i \in 1..(m - 1) : f[i] >= f[i + 1]}}

InitSnapshot ==
  /\ errors = <<>>
  /\ storage \in PriorSnapshots
  /\ storageFull = FALSE
  /\ now = StartNow
  /\ reported = 0
  /\ loads = 0
  /\ clears = 0
  /\ InitRegistry
  /\ InitBoundary
  /\ InitPipe
  /\ InitHost

NextSnapshot ==
  \/ Tick
  \/ LoadPersistedErrorsUpTo(MaxSnapLoads)
  \/ ReportErrorUpTo(MaxSnapReports)
  \/ ClearErrors

SpecSnapshot == InitSnapshot /\ [][NextSnapshot]_vars

\* the Capture Layer and the MonitoringSystem driven by the application
NextCapture ==
  \/ Start
  \/ Stop
  \/ UpdateConfig
  \/ ConsoleCall

SpecCapture == Init /\ [][NextCapture]_vars

\* the MonitoringSystem initialized and shut down around the application's calls
NextMonitoring ==
  \/ Initialize
  \/ Shutdown
  \/ UpdateConfig
  \/ ConsoleCall

SpecMonitoring == Init /\ [][NextMonitoring]_vars

\* the MonitoringSystem initialized, shut down and restarted while the application
\* writes to the console
NextRestart ==
  \/ Initialize
  \/ Shutdown
  \/ Restart
  \/ DeferredInitialize
  \/ ConsoleCall

SpecRestart == Init /\ [][NextRestart]_vars

\* listeners of the ErrorMonitor, with the Capture Layer started or not and the
\* storage quota used up or not
NextListeners ==
  \/ AddListener
  \/ Unsubscribe
  \/ ReportErrorUpTo(MaxPipeReports)
  \/ StartWith({1}, MaxListenerStarts)
  \/ QuotaChanges

SpecListeners == Init /\ [][NextListeners]_vars

\* the Capture Layer with listeners of the application on both sides and
\* arguments that cannot be converted
NextInterceptor ==
  \/ StartWith({1}, MaxListenerStarts)
  \/ AddCaptureListener
  \/ AddListener
  \/ ConsoleCallWith(HostArgs \cup {ArgsOpaque})

SpecInterceptor == Init /\ [][NextInterceptor]_vars

\* reports that outgrow the snapshot, with listeners, while the storage quota
\* comes and goes
NextPersist ==
  \/ ReportErrorUpTo(MaxPersistReports)
  \/ AddListener
  \/ QuotaChanges

SpecPersist == Init /\ [][NextPersist]_vars

(***************************************************************************)
(* Properties                                                              *)
(***************************************************************************)
\* the phase of section 4.4, read off the boundary's state
Phase ==
  IF ~hasError THEN "Stable"
  ELSE IF caught # NoError THEN "Failed"
  ELSE IF inflight # {} THEN "Recovering"
  ELSE IF recoveryTimer.pending THEN "Recovered"
  ELSE IF recoveryAttempts >= maxRecoveryAttempts THEN "Exhausted"
  ELSE "Failed"

\* C1: attemptCount (recoveryAttempts) never exceeds maxAttempts, whatever the
\* interleaving of failures, completions, timers, manual retry and unmount.
C1_AttemptsWithinBudget == recoveryAttempts <= maxRecoveryAttempts

\* C2 as stated: after maxAttempts consecutive failures the boundary is Exhausted
\* and no reset timer is scheduled or pending.
C2_ExhaustedAfterMaxFailures ==
  (~burst /\ failures = maxRecoveryAttempts /\ caught = NoError)
    => (Phase = "Exhausted" /\ inflight = {} /\ ~recoveryTimer.pending)

ConsecutivePhaseSteps ==
  {<<"Stable", "Failed">>, <<"Failed", "Recovering">>, <<"Recovering", "Recovering">>,
   <<"Recovering", "Recovered">>, <<"Recovered", "Stable">>, <<"Failed", "Exhausted">>}

\* C2 amended: each of the first maxAttempts consecutive failures runs the cycle
\* Stable, Failed, Recovering, Recovered, Stable and adds one to attemptCount; the
\* failure after them, arriving with attemptCount = maxAttempts, moves from Failed
\* directly to Exhausted, where nothing is in flight and no timer is pending, and
\* the boundary stays there.
C2_ExhaustedAfterBudget ==
  /\ [](~burst =>
          /\ (~hasError => recoveryAttempts = failures)
          /\ (hasError /\ caught = NoError /\ failures <= maxRecoveryAttempts)
               => (Phase \in {"Recovering", "Recovered"} /\ recoveryAttempts = failures - 1)
          /\ (caught = NoError /\ failures = maxRecoveryAttempts + 1)
               => (/\ Phase = "Exhausted"
                   /\ recoveryAttempts = maxRecoveryAttempts
                   /\ inflight = {} /\ ~recoveryTimer.pending /\ ~isRecovering))
  /\ [][(~burst' /\ Phase' # Phase) => <<Phase, Phase'>> \in ConsecutivePhaseSteps]_vars

C2_Witness ==
  /\ ~burst /\ failures = maxRecoveryAttempts + 1 /\ caught = NoError
  /\ Phase = "Exhausted" /\ ~recoveryTimer.pending
  /\ \A i \in 1..Len(errors) : errors[i].error = ErrBoom
  /\ fixHistory = <<>>

\* C3: manualReset returns the boundary to Stable with attemptCount = 0.
C3_ManualResetClearsAttempts ==
  [][retries' = retries + 1 => (~hasError' /\ recoveryAttempts' = 0)]_vars

\* C4: after n >= 1 applyFix calls on a rule of which k succeeded, successRate = k/n.
C4_SuccessRateIsMean ==
  \A i \in 1..Len(fixes) :
    LET n == applyLog[fixes[i].oid][1]
        k == applyLog[fixes[i].oid][2]
    IN n >= 1 => fixes[i].rateNum * n = k * fixes[i].rateDen

\* C5: under reportError alone the ledger never exceeds maxStoredErrors, and once
\* more than maxStoredErrors events were reported it holds exactly the
\* maxStoredErrors most recent ones, newest first.
C5_LedgerKeepsNewest ==
  /\ Len(errors) <= maxStoredErrors
  /\ reported <= maxStoredErrors => Len(errors) = reported
  /\ reported > maxStoredErrors => Len(errors) = maxStoredErrors
  /\ \A i \in 1..Len(errors) : errors[i].sid = "cur" /\ errors[i].id = reported + 1 - i

C5_Witness == reported > maxStoredErrors /\ Len(errors) = maxStoredErrors

\* C6: after any sequence of reportError, loadPersistedErrors and clearErrors the
\* ledger holds at most maxStoredErrors events.
C6_LedgerWithinCapacity == Len(errors) <= maxStoredErrors

C8_DuplicateIdRejected ==
  /\ [](\A i, j \in 1..Len(fixes) : fixes[i].id = fixes[j].id => i = j)
  /\ [][(regs' = regs + 1 /\ \E i \in 1..Len(fixes) : fixes[i].id = lastRegister'.id)
          => (fixes' = fixes /\ lastRegister'.outcome \in {"duplicate", "invalid"})]_vars

C8_Witness ==
  /\ lastRegister = [id |-> "missing-dependency", outcome |-> "duplicate"]
  /\ \E i \in 1..Len(fixes) : fixes[i].id = "missing-dependency" /\ fixes[i].oid = 2

\* age of a stored event at time t, in hours
AgeAt(e, t) == t - FromISOString(e.timestamp)

\* the entries of a snapshot that are less than 24 hours old at time t
WithinLastDay(stored, t) ==
  SelectSeqBy(stored, [i \in 1..Len(stored) |-> AgeAt(stored[i], t) < DayHours])

\* C9: loadPersistedErrors puts in front of the ledger exactly the snapshot entries
\* less than 24 hours old and drops the others; from a snapshot with a 1-hour and
\* a 25-hour entry an empty ledger receives the 1-hour entry only.
C9_LoadKeepsLastDay ==
  [][loads' = loads + 1
       => /\ errors' = WithinLastDay(storage.errors, now) \o errors
          /\ \A i \in 1..(Len(errors') - Len(errors)) : AgeAt(errors'[i], now) < DayHours
          /\ (/\ errors = <<>> /\ Len(storage.errors) = 2
              /\ AgeAt(storage.errors[1], now) = 1 /\ AgeAt(storage.errors[2], now) = 25)
               => errors' = <<storage.errors[1]>>]_vars

C9_Witness ==
  /\ loads = 1 /\ reported = 0
  /\ Len(storage.errors) = 2
  /\ AgeAt(storage.errors[1], now) = 1 /\ AgeAt(storage.errors[2], now) = 25
  /\ errors = <<storage.errors[1]>>

\* the registry holds the seven built-in rule objects and nothing else
DefaultRegistry ==
  /\ Len(fixes) = Len(BuiltinRules)
  /\ \A i \in 1..Len(fixes) : fixes[i].oid <= Len(BuiltinRules)

\* the first failure this boundary ever observed had the lodash message
FirstFailureIsLodash == errors # <<>> /\ errors[Len(errors)].error = ErrLodash

FirstLodash(a) == a.id = 1 /\ a.error = ErrLodash

\* C10: first failure of a fresh boundary, "Cannot find module 'lodash'", default
\* registry: findFix yields the built-in missing-dependency rule, applyFix on it
\* yields false, a reset is still scheduled with delay 2000 ms, and when that
\* timer fires the boundary is Stable with attemptCount = 1.
C10_LodashScenario ==
  /\ [][\A a \in inflight :
          (FirstLodash(a) /\ a.pc = "findFix" /\ DefaultRegistry /\ a \notin inflight')
            => \E b \in inflight' :
                 /\ b.id = 1 /\ b.pc = "applyFix"
                 /\ b.rule = "missing-dependency" /\ b.fix <= Len(BuiltinRules)]_vars
  /\ [][\A a \in inflight :
          (/\ FirstLodash(a) /\ a.pc = "applyFix"
           /\ a.rule = "missing-dependency" /\ a.fix <= Len(BuiltinRules)
           /\ a \notin inflight')
            => /\ fixHistory' = Append(fixHistory, [fix |-> a.fix, id |-> a.rule,
                                                    success |-> FALSE])
               /\ autoFixApplied' = autoFixApplied
               /\ recoveryTimer' = [pending |-> TRUE, delay |-> 2000, by |-> 1]]_vars
  /\ [][(/\ FirstFailureIsLodash /\ mounted'
         /\ recoveryTimer = [pending |-> TRUE, delay |-> 2000, by |-> 1]
         /\ ~recoveryTimer'.pending)
          => (~hasError' /\ ~isRecovering' /\ recoveryAttempts' = 1)]_vars

C10_Witness ==
  /\ failures = 1 /\ FirstFailureIsLodash /\ mounted /\ regs = 0
  /\ fixHistory = <<[fix |-> 2, id |-> "missing-dependency", success |-> FALSE]>>
  /\ Phase = "Stable" /\ recoveryAttempts = 1 /\ ~recoveryTimer.pending

\* a step in which the application made one call of the given kind
HostCalled(op) == lastCall'.op = op /\ ops' # ops

\* some entry of filterPatterns matches the message
MatchesSomeFilter(message) ==
  \E i \in 1..Len(config.filterPatterns) :
    \E alt \in config.filterPatterns[i].alts :
      SegmentsFrom(message, 1, alt, config.filterPatterns[i].ignoreCase)

\* C11: while the Capture Layer is running, an intercepted console call whose
\* stringified message matches an entry of filterPatterns (a literal or a pattern)
\* adds nothing to the captured messages, notifies no capture listener and reports
\* nothing to the ErrorMonitor, at every level, error included.
C11_FilteredCallLeavesNoTrace ==
  [][(/\ HostCalled("console")
      /\ isIntercepting /\ console[lastCall'.arg] # Original
      /\ MatchesSomeFilter(lastCall'.message))
       => /\ capturedMessages' = capturedMessages
          /\ cnotified' = <<>> /\ notified' = <<>>
          /\ reported' = reported /\ errors' = errors /\ storage' = storage]_vars

C11_Witness ==
  /\ lastCall = Call("console", "error", Stringify(ArgsNoisy), 0)
  /\ isIntercepting /\ console["error"] = "error"
  /\ config.filterPatterns = CfgNoisy.filterPatterns
  /\ captureListeners # <<>>
  /\ cnotified = <<>> /\ reported = 0
  /\ \A i \in 1..Len(capturedMessages) : capturedMessages[i].message # Stringify(ArgsNoisy)

\* the registrations a reportError call with the given id invoked, in order
InvokedBy(log, id) ==
  LET Mine(e) == e.report = id
      mine == SelectSeq(log, Mine)
  IN [i \in 1..Len(mine) |-> mine[i].reg]

\* C12: one reportError call invokes every listener subscribed when it was called
\* exactly once and in subscription order, keeps its ledger entry and does not
\* throw to its caller, also when listeners throw.
C12_EveryListenerOnceInOrder ==
  [][(lastCall'.op = "reportError" /\ reported' > reported)
       => /\ InvokedBy(notified', reported + 1) = [i \in 1..Len(listeners) |-> listeners[i].reg]
          /\ ~threw'
          /\ \E i \in 1..Len(errors') : errors'[i].id = reported + 1]_vars

\* C13: with the Capture Layer running and capturing errors and a listener that
\* always throws, one external reportError call inserts exactly one ledger entry:
\* logging the listener's exception does not come back as further reportError calls.
C13_ListenerFailureContained ==
  [][(/\ lastCall'.op = "reportError" /\ reported' > reported
      /\ isIntercepting /\ config.captureErrors
      /\ \E i \in 1..Len(listeners) : listeners[i].fn = "throw")
       => /\ reported' = reported + 1
          /\ Len(errors') = Len(errors) + 1
          /\ capturedMessages' = capturedMessages]_vars

\* C14: applyFix never rejects; when the rule's fixFunction throws or rejects,
\* applyFix resolves to false and appends a history entry with success = false.
C14_ApplyFixNeverRejects ==
  /\ [](lastApply.result \in {None, "true", "false"})
  /\ [][(/\ lastApply'.settled = "throw"
          /\ DOMAIN applyLog' = DOMAIN applyLog /\ applyLog' # applyLog)
          => /\ lastApply'.result = "false"
             /\ fixHistory' = Append(fixHistory, [fix |-> lastApply'.fix, id |-> lastApply'.id,
                                                  success |-> FALSE])]_vars

C14_Witness ==
  /\ lastApply.settled = "throw" /\ lastApply.result = "false"
  /\ lastApply.id = "custom-high"
  /\ fixHistory # <<>> /\ ~fixHistory[Len(fixHistory)].success
  /\ fixHistory[Len(fixHistory)].fix = lastApply.fix

\* C15: once the boundary is unmounted no recovery timer of it is pending (so none
\* can fire), whatever it was doing when it was unmounted.
C15_NoTimerAfterTeardown == ~mounted => ~recoveryTimer.pending

\* the ledger entries reported less than WindowMinutes ago
ReportedInWindow ==
  Cardinality({i \in 1..Len(errors) :
                 (now - FromISOString(errors[i].timestamp)) * 60 < WindowMinutes})

\* C16: getSystemHealth returns critical when more than 10 ledger entries were
\* reported in the last 5 minutes, warning when more than 5, healthy otherwise.
C16_HealthCountsRecentFailures ==
  GetSystemHealth(errors, now) =
    IF ReportedInWindow > CriticalAbove THEN "critical"
    ELSE IF ReportedInWindow > WarningAbove THEN "warning"
    ELSE "healthy"

\* C17: start() while running leaves configuration, console methods, captured
\* messages and ledger as they were, whatever configuration is passed; start()
\* while stopped puts an interceptor on exactly the enabled levels.
C17_StartWhileRunningIsNoOp ==
  [][HostCalled("start")
       => IF isIntercepting
            THEN /\ config' = config /\ console' = console /\ isIntercepting'
                 /\ capturedMessages' = capturedMessages /\ errors' = errors
            ELSE /\ isIntercepting'
                 /\ console' = Intercepted(config', [l \in Levels |-> Original])]_vars

\* C18: when the Capture Layer is not running every console method is the original
\* one, and a console call then captures nothing, notifies nobody and reports
\* nothing, whatever start, updateConfig and stop calls came before; stop() leaves
\* the layer stopped, and stop() while not running changes nothing.
C18_StopRestoresOriginalSinks ==
  /\ [](~isIntercepting => \A l \in Levels : console[l] = Original)
  /\ [][HostCalled("stop")
          => /\ ~isIntercepting' /\ \A l \in Levels : console'[l] = Original
             /\ config' = config /\ capturedMessages' = capturedMessages /\ errors' = errors
             /\ ~isIntercepting => console' = console]_vars
  /\ [][(HostCalled("console") /\ ~isIntercepting)
          => /\ capturedMessages' = capturedMessages /\ cnotified' = <<>>
             /\ reported' = reported /\ errors' = errors]_vars

C18_Witness ==
  /\ lastCall.op = "console" /\ lastCall.arg = "log"
  /\ ~isIntercepting /\ ops.capture = 4
  /\ config.captureInfo /\ console["log"] = Original
  /\ Len(capturedMessages) = 1
  /\ capturedMessages[1].message = <<"Console", "interceptor", "started">>

\* C19: initialize() while initialized only warns: persisted errors are not loaded
\* again, the Capture Layer keeps its state and configuration, and no listener is
\* added to the ErrorMonitor or to the Capture Layer.
C19_SecondInitializeOnlyWarns ==
  [][(HostCalled("initialize") /\ initialized)
       => /\ initialized' /\ loads' = loads
          /\ errors' = errors /\ storage' = storage
          /\ isIntercepting' = isIntercepting /\ config' = config /\ console' = console
          /\ listeners' = listeners /\ captureListeners' = captureListeners]_vars

C19_Witness ==
  /\ lastCall.op = "initialize" /\ ops.init = 2 /\ ops.shutdown = 0
  /\ initialized /\ loads = 1 /\ isIntercepting
  /\ Len(listeners) = 1 /\ Len(captureListeners) = 1
  /\ capturedMessages # <<>>
  /\ capturedMessages[1].message = <<"Monitoring", "system", "is", "already", "initialized">>

\* the list without the registration with the given number
WithoutRegistration(list, reg) ==
  LET Other(l) == l.reg # reg
  IN SelectSeq(list, Other)

\* C20: an unsubscribe closure removes the registration that produced it and no
\* other, also not another registration of the same function; called again it
\* changes nothing.
C20_UnsubscribeRemovesOwnRegistration ==
  [][HostCalled("unsubscribe")
       => listeners' = WithoutRegistration(listeners, lastCall'.reg)]_vars

\* C21: after any sequence of registerFix, removeFix, applyFix and importRegistry
\* calls the rule list is in non-increasing order of priority, and rules of equal
\* priority stand in the order in which they were registered (stated for the
\* rules that have a priority).
C21_RulesSortedByPriority ==
  \A i, j \in 1..Len(fixes) :
    (i < j /\ fixes[i].hasPriority /\ fixes[j].hasPriority)
      => /\ fixes[i].priority >= fixes[j].priority
         /\ fixes[i].priority = fixes[j].priority => fixes[i].oid < fixes[j].oid
\* a step in which an applyFix call completed
ApplyFixCompleted == DOMAIN applyLog' = DOMAIN applyLog /\ applyLog' # applyLog

\* C22: after every applyFix call, whatever its outcome (true, false or thrown),
\* the fix history holds at most 100 entries; when the new entry makes it overflow
\* it is cut to the 50 most recent attempts.
C22_HistoryCapped ==
  /\ [](Len(fixHistory) <= HistoryCap)
  /\ [][ApplyFixCompleted
          => LET grown == Append(fixHistory, [fix |-> lastApply'.fix, id |-> lastApply'.id,
                                              success |-> (lastApply'.result = "true")])
             IN fixHistory' = IF Len(grown) > HistoryCap
                                THEN SubSeq(grown, Len(grown) - HistoryKeep + 1, Len(grown))
                                ELSE grown]_vars
\* C23: every applyFix call adds exactly 1 to the timesUsed of the rule it was
\* called on, whether the fixFunction returned true, returned false or threw,
\* also with several calls on the rule in flight; so timesUsed equals the number
\* of completed applyFix calls on the rule.
C23_TimesUsedCountsEveryCall ==
  /\ [](\A i \in 1..Len(fixes) : fixes[i].timesUsed = applyLog[fixes[i].oid][1])
  /\ [][ApplyFixCompleted
          => \A i \in 1..Len(fixes) :
               fixes'[i].timesUsed =
                 fixes[i].timesUsed + (IF fixes[i].oid = lastApply'.fix THEN 1 ELSE 0)]_vars
\* a step in which the host called reportError
ReportErrorCalled == lastCall'.op = "reportError" /\ reported' > reported

\* the snapshot holds the newest entries of the ledger, at most SnapshotSize of them
HoldsNewest(snapshot, ledger) ==
  /\ snapshot.present
  /\ Len(snapshot.errors) = (IF Len(ledger) < SnapshotSize THEN Len(ledger) ELSE SnapshotSize)
  /\ \A i \in 1..Len(snapshot.errors) :
       /\ snapshot.errors[i].id = ledger[i].id
       /\ snapshot.errors[i].sid = ledger[i].sid
       /\ snapshot.errors[i].type = ledger[i].type
       /\ snapshot.errors[i].timestamp = ledger[i].timestamp

\* the call returned, what it inserted heads the ledger, and the listeners were
\* notified of its event (all of them, in order, where none unsubscribes meanwhile)
ReportedAndNotified ==
  /\ ~threw'
  /\ errors' # <<>> /\ errors'[1].id = reported'
  /\ \E i \in 1..Len(errors') : errors'[i].id = reported + 1
  /\ listeners # <<>> => /\ notified' # <<>>
                         /\ notified'[1].reg = listeners[1].reg
                         /\ notified'[1].report = reported + 1
  /\ (\A i \in 1..Len(listeners) : listeners[i].fn # "once")
       => InvokedBy(notified', reported + 1) = [i \in 1..Len(listeners) |-> listeners[i].reg]

\* C24 as stated: after every reportError call the persisted snapshot holds exactly
\* the (at most 20) newest ledger entries; a failed write is not raised to the
\* caller, and the ledger insertion and the notifications still take place.
C24_SnapshotHoldsNewest ==
  [][ReportErrorCalled => (HoldsNewest(storage', errors') /\ ReportedAndNotified)]_vars

\* C24 amended: after every reportError call whose write succeeded the persisted
\* snapshot holds exactly the (at most 20) newest ledger entries; after a call
\* whose write failed the snapshot is the one that was there before; in both
\* cases nothing is raised to the caller, the event was inserted into the ledger
\* and the listeners were notified of it.
C24_SnapshotBestEffort ==
  [][ReportErrorCalled
       => /\ IF storageFull THEN storage' = storage ELSE HoldsNewest(storage', errors')
          /\ ReportedAndNotified]_vars

C24_Witness ==
  /\ lastCall.op = "reportError" /\ storageFull /\ ~threw
  /\ reported = MaxPersistReports /\ errors[1].id = MaxPersistReports
  /\ Len(storage.errors) = SnapshotSize /\ storage.errors[1].id = MaxPersistReports - 1
  /\ Len(listeners) = 2 /\ Len(notified) = 2
\* a step in which scheduleRecovery ran
RecoveryScheduled ==
  /\ recoveryTimer'.pending
  /\ \E a \in inflight : a.id = recoveryTimer'.by /\ a \notin inflight'
  /\ \A a \in inflight' : a.id # recoveryTimer'.by

\* a step in which the callback of the recovery timer ran
RecoveryTimerFired == recoveryTimer.pending /\ ~recoveryTimer'.pending /\ mounted' = mounted

\* C25: every scheduled reset uses the delay 2000 ms + attemptCount * 1000 ms, with
\* attemptCount read when it is scheduled, so the automatic recoveries of one
\* boundary use the delays 2000, 3000 and 4000 ms, each longer than the one
\* before; when the timer fires the boundary is Stable and attemptCount is one more.
C25_BackoffDelays ==
  /\ [](recoveryTimer.pending
          => recoveryTimer.delay \in {BaseDelay + k * StepDelay : k \in 0..(maxRecoveryAttempts - 1)})
  /\ [][RecoveryScheduled
          => recoveryTimer'.delay = BaseDelay + recoveryAttempts * StepDelay]_vars
  /\ [][RecoveryTimerFired
          => /\ ~hasError' /\ ~isRecovering' /\ error' = NoError
             /\ recoveryAttempts' = recoveryAttempts + 1
             /\ BaseDelay + recoveryAttempts' * StepDelay > recoveryTimer.delay]_vars
\* a step in which componentDidCatch ran
FailureObserved == failures' = failures + 1

\* C26: a failure that arrives with attemptCount >= maxAttempts starts no registry
\* lookup, applies no rule, schedules no timer and does not enter Recovering; the
\* boundary then shows the failure surface until a manual reset.
C26_ExhaustedBoundaryStaysFailed ==
  /\ [][(FailureObserved /\ recoveryAttempts >= maxRecoveryAttempts)
          => /\ inflight' = inflight /\ recoveryTimer' = recoveryTimer
             /\ isRecovering' = isRecovering /\ hasError'
             /\ fixes' = fixes /\ fixHistory' = fixHistory]_vars
  /\ [][(hasError /\ caught = NoError /\ recoveryAttempts >= maxRecoveryAttempts /\ ~hasError')
          => retries' = retries + 1]_vars
\* C27: within one reportError call the snapshot is written before any listener
\* is invoked: every listener finds the event it is called with in the stored
\* snapshot (the write itself succeeding).
C27_SnapshotBeforeListeners ==
  [][(ReportErrorCalled /\ ~storageFull)
       => \A i \in 1..Len(notified') : notified'[i].persisted]_vars
\* C28: every listener is notified of the events in the order in which they were
\* inserted into the ledger, also when a report is made during a notification.
C28_NotifiedInInsertionOrder ==
  \A i, j \in 1..Len(notified) :
    (i < j /\ notified[i].reg = notified[j].reg) => notified[i].report < notified[j].report
\* the recovery attempts whose findFix / applyFix completed in this step
AttemptsCompleted ==
  {a \in inflight : \A b \in inflight' : b.id # a.id}

\* C29: when the findFix / applyFix of a recovery attempt (started with
\* attemptCount < maxAttempts) complete, a reset timer is scheduled, whether no rule
\* matched, a rule matched and applyFix returned false (its action threw included),
\* or a rule matched and applyFix returned true.
C29_TimerInAllThreeCases ==
  [][\A a \in AttemptsCompleted :
       /\ a.id <= failures /\ a.pc \in {"findFix", "applyFix"}
       /\ recoveryTimer'.pending /\ recoveryTimer'.by = a.id
       /\ recoveryTimer'.delay = BaseDelay + recoveryAttempts * StepDelay]_vars

\* a timer set by the failure whose rule threw, after one whose rule succeeded and
\* one that no rule matched
C29_Witness ==
  /\ recoveryTimer.pending /\ recoveryTimer.by = failures
  /\ lastApply.settled = "throw" /\ lastApply.result = "false"
  /\ \E i \in 1..Len(fixHistory) : fixHistory[i].success
  /\ inflight = {} /\ retries = 0 /\ recoveryAttempts < maxRecoveryAttempts
  /\ Len(fixHistory) < failures
\* a console call of the application that reaches processMessage and passes the filters
UnfilteredInterceptedCall ==
  /\ HostCalled("console")
  /\ console[lastCall'.arg] # Original
  /\ ~MatchesSomeFilter(lastCall'.message)

\* C30: an unfiltered intercepted console call puts a FailureEvent of type
\* console_error into the ledger if and only if its level is error; at the other
\* levels the message is added to the capture buffer and every capture listener is
\* notified of it, and the ledger stays as it was.
C30_OnlyErrorLevelReported ==
  [][UnfilteredInterceptedCall
       => IF lastCall'.arg = "error"
            THEN /\ reported' > reported
                 /\ \E i \in 1..Len(errors') :
                      /\ errors'[i].id = reported + 1
                      /\ errors'[i].type = "console_error"
            ELSE /\ errors' = errors /\ reported' = reported /\ notified' = <<>>
                 /\ capturedMessages' # <<>>
                 /\ capturedMessages'[1].level = lastCall'.arg
                 /\ capturedMessages'[1].message = lastCall'.message
                 /\ cnotified' = [i \in 1..Len(captureListeners) |->
                                    [listener |-> i, level |-> lastCall'.arg,
                                     message |-> lastCall'.message]]]_vars

\* a warning was captured and handed to a capture listener after an error-level
\* call had put its event into the ledger
C30_Witness ==
  /\ lastCall.op = "console" /\ lastCall.arg = "warn"
  /\ console["warn"] # Original
  /\ capturedMessages # <<>> /\ capturedMessages[1].level = "warn"
  /\ cnotified # <<>> /\ cnotified[1].level = "warn"
  /\ errors # <<>> /\ errors[1].type = "console_error"

\* a console call of the application that reaches an interceptor
InterceptedCall == HostCalled("console") /\ console[lastCall'.arg] # Original

\* the capture listeners that throw when called
ThrowingCaptureListeners == {i \in 1..Len(captureListeners) : captureListeners[i] = "throw"}

\* C31: when processing an intercepted call throws (converting the arguments, in a
\* capture listener, or while forwarding to the ErrorMonitor), the caller sees no
\* exception, the exception is written to the original console only, and the call
\* leaves no capture record and no ledger entry beyond its own.
C31_ProcessingFailureStaysOutside ==
  [][InterceptedCall
       => /\ ~threw'
          /\ Len(capturedMessages') <= Len(capturedMessages) + 1
          /\ reported' <= reported + 1
          /\ lastCall'.arg # "error" => reported' = reported /\ errors' = errors
          /\ capturedMessages' = capturedMessages
               => sinkErrors' \in {<<>>, <<"interceptor">>}
          /\ (Len(capturedMessages') = Len(capturedMessages) + 1 /\ reported' = reported)
               => sinkErrors' = [i \in 1..Cardinality(ThrowingCaptureListeners) |->
                                  "listener"]]_vars

\* a step in which importRegistry ran
ImportRegistryCalled == imports' = imports + 1

\* C32: importRegistry fails with a format error and registers nothing when its
\* input cannot be parsed or has no list of rules; for an input with a list it
\* returns, having registered the entries registerFix accepts and skipped the others.
C32_ImportRejectsWrongShape ==
  [][ImportRegistryCalled
       => IF lastImport'.document \in {"malformed", "keyed"}
            THEN lastImport'.outcome = "format error" /\ fixes' = fixes
            ELSE /\ lastImport'.outcome = "returned"
                 /\ \A i \in 1..Len(fixes) : \E j \in 1..Len(fixes') : fixes'[j] = fixes[i]
                 /\ lastImport'.document = "ranked"
                      => (\E j \in 1..Len(fixes') : fixes'[j].id = ImportedRanked.id)]_vars

\* the ledger entries inserted in this step for a failure a boundary caught
BoundaryEvents ==
  {i \in 1..Len(errors') : errors'[i].sid = "cur" /\ errors'[i].id > reported
                             /\ errors'[i].type = "react_boundary"}

\* C33: in the step in which a boundary observes a failure (componentDidCatch), the
\* failure is inserted into the ledger exactly once, attemptCount keeps its value,
\* and no registry lookup has completed and no timer has been set yet; this is so
\* also when the budget is spent.
C33_FailureReportedOnceAtOnce ==
  [][FailureObserved
       => /\ Cardinality(BoundaryEvents) = 1
          /\ \A i \in BoundaryEvents : errors'[i].id = reported + 1 /\ errors'[i].error = caught
          /\ recoveryAttempts' = recoveryAttempts
          /\ recoveryTimer' = recoveryTimer
          /\ fixes' = fixes /\ fixHistory' = fixHistory /\ lastFind' = lastFind
          /\ \A a \in inflight' \ inflight : a.pc = "findFix" /\ a.fix = 0]_vars

\* the failure of an exhausted boundary is the newest ledger entry
C33_Witness ==
  /\ hasError /\ caught = NoError /\ mounted
  /\ recoveryAttempts >= maxRecoveryAttempts
  /\ failures = maxRecoveryAttempts + 1 /\ inflight = {} /\ ~recoveryTimer.pending
  /\ errors # <<>> /\ errors[1].type = "react_boundary" /\ errors[1].id = reported
  /\ errors[1].error = error

\* the ledger, newest first, follows occurrence time
NewestFirst(ledger) ==
  \A i, j \in 1..Len(ledger) :
    i < j => ~StrGreater(ledger[j].timestamp, ledger[i].timestamp)

\* C34: events merged by loadPersistedErrors rank as older than the events of the
\* current process: after a load into a non-empty ledger the ledger, newest first,
\* still follows occurrence time and keeps the events of the process at its head,
\* so that the cut to capacity removes the historical events first.
C34_LoadedEventsRankOlder ==
  [][(loads' = loads + 1 /\ errors # <<>> /\ NewestFirst(errors))
       => /\ NewestFirst(errors')
          /\ SubSeq(errors', 1, Len(errors)) = errors]_vars

\* C35: a boundary that is not unmounted and observes a failure while attemptCount
\* is below maxAttempts returns to Stable (hasError false, isRecovering false),
\* given that every fixFunction settles.
C35_RecoveryReachesStable ==
  (caught # NoError /\ recoveryAttempts < maxRecoveryAttempts)
    ~> (~hasError /\ ~isRecovering /\ caught = NoError)

\* Stable again after a recovery that applied a rule
C35_Witness ==
  /\ ~hasError /\ ~isRecovering /\ caught = NoError /\ inflight = {}
  /\ recoveryAttempts > 0 /\ fixHistory # <<>> /\ failures > 0

\* the reset timeouts of the boundary that have not fired and were not cleared
PendingTimers == (IF recoveryTimer.pending THEN 1 ELSE 0) + staleTimers

\* C36: at most one recovery reset timer is pending in every reachable state:
\* scheduling a reset while one is pending leaves only the new one pending, and a
\* step in which a timer fires takes the only pending one and adds exactly 1 to
\* attemptCount, however many failures were caught during the cycle.
C36_OneResetTimerPending ==
  /\ [](PendingTimers <= 1)
  /\ [][/\ (recoveryTimer.pending /\ recoveryTimer'.pending
             /\ recoveryTimer' # recoveryTimer) => PendingTimers' = 1
        /\ recoveryAttempts' # recoveryAttempts =>
             /\ PendingTimers = 1 /\ PendingTimers' = 0
             /\ recoveryAttempts' = recoveryAttempts + 1]_vars

\* the timer of the second failure of a cycle replaced the timer of the first,
\* no reset has taken place yet
C36_Witness ==
  /\ recoveryTimer.pending /\ recoveryTimer.by = 2 /\ failures = 2
  /\ recoveryAttempts = 0 /\ retries = 0 /\ inflight = {} /\ mounted
  /\ PendingTimers = 1

\* C37: while the boundary is recovering, autoFixApplied is true only if a rule was
\* applied successfully for the failure being recovered: in a cycle that began
\* after the reset of the cycle before (no timer pending) and whose attempts have
\* not got past the lookup of a rule, the indicator is false.
C37_IndicatorOfThisCycleOnly ==
  (/\ mounted /\ isRecovering /\ PendingTimers = 0
   /\ inflight # {} /\ \A a \in inflight : a.pc = "findFix")
    => ~autoFixApplied

\* C38: after shutdown() returned, the monitoring system stays un-initialized and
\* the Capture Layer stays stopped in every step that is not a call of initialize()
\* or restart(), the step of the deferred initialize of an earlier restart() included.
C38_ShutdownStaysDown ==
  [][(/\ lastCall.op = "shutdown"
      /\ ops'.init = ops.init /\ ops'.restart = ops.restart)
       => ~initialized' /\ ~isIntercepting']_vars

\* the stats-logging listeners setupErrorListeners has registered on the store
StatsListeners == {i \in 1..Len(listeners) : listeners[i].fn = "stats"}

\* the listeners setupErrorListeners has registered on the Capture Layer
MonitorListeners == {i \in 1..Len(captureListeners) : captureListeners[i] = "monitor"}

\* C39: after any sequence of initialize, shutdown and restart calls the facade has
\* at most one stats-logging listener on the Failure Store and at most one on the
\* Capture Layer, and no event (known by its id) appears twice in the ledger.
C39_InitializedOnce ==
  /\ Cardinality(StatsListeners) <= 1
  /\ Cardinality(MonitorListeners) <= 1
  /\ \A i, j \in 1..Len(errors) : i # j => errors[i].id # errors[j].id

\* C40: when a listener unsubscribes itself or another listener while a reportError
\* notification is in progress, every listener that is still subscribed after the
\* call has been invoked for that report.
C40_UnsubscribeSkipsNobody ==
  [][(ReportErrorCalled /\ listeners' # listeners)
       => \A i \in 1..Len(listeners') :
            \E k \in 1..Len(notified') :
              /\ notified'[k].reg = listeners'[i].reg
              /\ notified'[k].report = reported + 1]_vars
====
